---- MODULE Spec2Model ----
(***************************************************************************)
(* A model of the perception-to-extraction pipeline of stagehand:          *)
(*   - StagehandExtractHandler.extract  (src/lib/handlers/extractHandler.ts)*)
(*   - AnthropicClient / OpenAIClient createChatCompletion                 *)
(*                                      (src/lib/llm/AnthropicClient.ts)   *)
(* Every action is one step of an async function between two awaits: the   *)
(* awaited operation completing, followed by the synchronous code up to    *)
(* the next await.                                                         *)
(***************************************************************************)
EXTENDS Integers, Sequences, FiniteSets, TLC

(***************************************************************************)
(* Bounds of the model.                                                    *)
(***************************************************************************)
\* largest number of selector-map entries processAllOfDom returns
MaxEntries == 2
\* largest number of bounding boxes one getElementBoundingBoxes call returns
MaxBoxes == 2
\* largest number of createChatCompletion calls callers make in one run
MaxCalls == 3

\* "no value" (undefined / null), as a record so that it compares with records
None == [none |-> TRUE]
\* an optional value: undefined / null, or a value
Undefined == <<>>
Some(x) == <<x>>
ValueOf(opt) == opt[1]

(***************************************************************************)
(* PART 1: StagehandExtractHandler.extract                                 *)
(***************************************************************************)
VARIABLES
  pc,              \* position of the one extract() run
  dom,             \* the live DOM of the page
  viewport,        \* page.viewportSize()
  startDomDebugCalls,    \* number of calls of startDomDebug
  cleanupDomDebugCalls,  \* number of calls of cleanupDomDebug
  originalDOM,     \* const originalDOM (None before storeDOM returned)
  restoreDOMArgs,  \* the arguments restoreDOM was called with, in order
  selectorMap,     \* Object.values(selectorMap): sequence of xpath lists
  entryIdx,        \* number of selector-map entries already iterated
  queried,         \* the xpaths passed to getElementBoundingBoxes, in order
  processed,       \* every box the inner loop has visited, in order
  seenAnnotations, \* const seenAnnotations = new Set<string>()
  textAnnotations, \* const textAnnotations: TextAnnotation[]
  formatTextArgs,  \* the arguments formatText was called with, in order
  extractCalls,    \* the arguments of the calls of inference extract()
  extractionResponse, \* what inference extract() resolved to (None before)
  returned,        \* the value extract() resolved to (None if it did not)
  error,           \* the error extract() rejected with ("" if it did not)
  args,            \* the arguments extract() was called with
  errorName,       \* the class name of the error extract() rejected with
  logs,            \* the records passed to this.logger, in order
  operations       \* the awaited operations that have settled, in order

extractVars == <<pc, dom, viewport, startDomDebugCalls, cleanupDomDebugCalls,
                 originalDOM, restoreDOMArgs, selectorMap, entryIdx, queried,
                 processed, seenAnnotations, textAnnotations, formatTextArgs,
                 extractCalls, extractionResponse, returned, error,
                 args, errorName, logs, operations>>

(***************************************************************************)
(* PART 2: the completion adapters and the response cache                  *)
(***************************************************************************)
VARIABLES
  adapter,         \* which client this is: "anthropic" or "openai"
  enableCaching,   \* this.enableCaching
  hasCache,        \* this.cache is an LLMCache (FALSE: it is undefined)
  baseRequest,     \* the request the callers of this run send (requestId aside)
  calls,           \* number of createChatCompletion calls callers have made
  llmPc,           \* position of the current createChatCompletion invocation
  request,         \* the options as the caller passed them to the current call
  options,         \* the options object of the current invocation
  cacheOptions,    \* const cacheOptions of the current invocation
  cache,           \* the content of the LLMCache: fingerprint inputs -> value
  cachedResponse,  \* what cache.get resolved to in this invocation
  invReadDone,     \* this invocation has awaited cache.get
  invVendorCalls,  \* vendor calls issued by this invocation
  invCacheWrites,  \* cache.set calls made by this invocation
  callVendorCalls, \* vendor calls issued since the caller's call started
  vendorResponses, \* the vendor responses received since the caller's call started
  vendorRequests,  \* the request bodies sent to the vendor since the caller's call started
  cacheBefore,     \* the content of the cache when the caller's call started
  callWrites,      \* the cache.set calls made since the caller's call started
  firstRead,       \* outcome of the read of the caller's own invocation
  reads,           \* every cache.get so far: options, inputs, cache, outcome
  result,          \* what the caller's call resolved to
  llmError,        \* the error the caller's call rejected with ("" if none)
  llmLogs          \* the messages logged since the caller's call started

llmVars == <<adapter, enableCaching, hasCache, baseRequest, calls, llmPc, request, options,
             cacheOptions, cache, cachedResponse, invReadDone, invVendorCalls,
             invCacheWrites, callVendorCalls, vendorResponses, vendorRequests,
             cacheBefore, callWrites, firstRead, reads, result, llmError, llmLogs>>

(***************************************************************************)
(* PART 3: two createChatCompletion calls of one AnthropicClient that       *)
(* overlap in time and share its cache                                      *)
(***************************************************************************)
VARIABLES
  sharedRequest,     \* the request both callers send (requestId aside)
  sharedCache,       \* the content of the shared LLMCache
  callerPc,          \* position of each caller's current invocation
  callerOptions,     \* the options object of each caller's current invocation
  callerVendorCalls, \* vendor calls issued for each caller
  callerVendorValue, \* the value each caller's own vendor response yielded
  callerResult,      \* what each caller's call resolved to
  callerError,       \* the error each caller's call rejected with ("" if none)
  cacheWrites        \* every cache.set so far, in order: by, inputs, value

concurrentVars == <<sharedRequest, sharedCache, callerPc, callerOptions,
                    callerVendorCalls, callerVendorValue, callerResult,
                    callerError, cacheWrites>>

(***************************************************************************)
(* PART 4: the request body an adapter builds from one options object      *)
(***************************************************************************)
VARIABLES
  bodyAdapter,     \* "anthropic" | "openai"
  bodyRequest,     \* the options object as the caller built it
  bodySent         \* the body handed to the vendor's client, Undefined before

bodyVars == <<bodyAdapter, bodyRequest, bodySent>>

(***************************************************************************)
(* PART 5: two extract() calls on one page whose awaits interleave         *)
(***************************************************************************)
VARIABLES
  pageDom,          \* the live DOM of the page both calls work on
  runPc,            \* per call: the await it is suspended at, "returned" or "thrown"
  runOriginalDOM,   \* per call: what its storeDOM() resolved to
  runEntries,       \* per call: the number of entries of its selectorMap
  runEntryIdx,      \* per call: the entries its loop has queried
  runFailed         \* per call: an awaited operation rejected

runVars == <<pageDom, runPc, runOriginalDOM, runEntries, runEntryIdx, runFailed>>

vars == <<extractVars, llmVars, concurrentVars, bodyVars, runVars>>

\* The bounding boxes the page can report: {text, left, top, width, height}.
\* The first is the box of the specification's scenario; the second has the
\* same geometry and another text; the third has the same text and the same
\* centre as the first and another width.
Boxes ==
  { [text |-> "Stars: 1000", left |-> 10, top |-> 20, width |-> 80, height |-> 20],
    [text |-> "Fork",        left |-> 10, top |-> 20, width |-> 80, height |-> 20],
    [text |-> "Stars: 1000", left |-> 30, top |-> 20, width |-> 40, height |-> 20] }

\* page.viewportSize()
Viewports == { [width |-> 1000, height |-> 500], [width |-> 100, height |-> 50] }

\* the live DOM before extract() starts
InitialDOM == [html |-> "<body>page</body>", textBoundingBoxes |-> FALSE]

\* sequences over S of length 0..n
RECURSIVE SeqsUpTo(_, _)
SeqsUpTo(S, n) ==
  IF n = 0 THEN { <<>> }
  ELSE LET shorter == SeqsUpTo(S, n - 1)
       IN  shorter \cup { Append(s, x) : s \in { t \in shorter : Len(t) = n - 1 }, x \in S }

\* a rational number num/den, kept unreduced
Rat(num, den) == [num |-> num, den |-> den]
RatEq(a, b) == a.num * b.den = b.num * a.den
RatLeq(a, b) == a.num * b.den <= b.num * a.den

\* Object.values(selectorMap) for a map of n elements: element i has a
\* first candidate path <<i, 1>> and a second one <<i, 2>>.
SelectorMapOf(n) == [i \in 1..n |-> << <<i, 1>>, <<i, 2>> >>]

\* a key that leaves the text out
AnnotationKeyWithoutText(box) ==
  << 2 * box.left + box.width, 2 * box.top + box.height, box.width, box.height >>

\* JSON.stringify({text, x: left + width/2, y: top + height/2, width, height}).
\* The serialisation is injective on the five components; the two centre
\* coordinates are kept doubled so that they stay integers.
AnnotationKey(box) ==
  << box.text, 2 * box.left + box.width, 2 * box.top + box.height,
     box.width, box.height >>

\* an annotation anchored at the centre of the box
ToAnnotationCentred(box, vp) ==
  [ text     |-> box.text,
    midpoint |-> [x |-> box.left + (box.width \div 2),
                  y |-> box.top + (box.height \div 2)],
    midpoint_normalized |->
      [ x |-> Rat(box.left, vp.width),
        y |-> Rat(box.top * vp.height + box.height, vp.height) ],
    width    |-> box.width,
    height   |-> box.height ]

\* the TextAnnotation pushed for a box
ToAnnotation(box, vp) ==
  [ text     |-> box.text,
    midpoint |-> [x |-> box.left, y |-> box.top + box.height],
    midpoint_normalized |->
      [ x |-> Rat(box.left, vp.width),
        \* box.top + box.height / viewportSize().height: the division binds
        \* tighter than the sum
        y |-> Rat(box.top * vp.height + box.height, vp.height) ],
    width    |-> box.width,
    height   |-> box.height ]

\* an iteration that puts a new annotation first (unshift for push)
VisitBoxUnshift(acc, box, vp) ==
  IF AnnotationKey(box) \notin acc.seen
  THEN [ seen |-> acc.seen \cup { AnnotationKey(box) },
         anns |-> <<ToAnnotation(box, vp)>> \o acc.anns ]
  ELSE acc

\* one iteration of `for (const box of boundingBoxes)`
VisitBox(acc, box, vp) ==
  IF AnnotationKey(box) \notin acc.seen
  THEN [ seen |-> acc.seen \cup { AnnotationKey(box) },
         anns |-> Append(acc.anns, ToAnnotation(box, vp)) ]
  ELSE acc

\* the whole inner loop over the boxes of one selector-map entry
RECURSIVE VisitBoxes(_, _, _)
VisitBoxes(acc, boxes, vp) ==
  IF boxes = <<>> THEN acc
  ELSE VisitBoxes(VisitBox(acc, Head(boxes), vp), Tail(boxes), vp)

\* const { metadata: { completed }, ...output } = extractionResponse
Completed(response) == response.metadata.completed
\* a destructuring that leaves the wrapper in the output
OutputWithMetadata(response) == response
Output(response) == [k \in (DOMAIN response) \ {"metadata"} |-> response[k]]

\* what inference extract() can resolve to: schema-shaped fields plus metadata
ExtractionResponses ==
  { [score |-> s, metadata |-> [completed |-> c]] : s \in {93}, c \in BOOLEAN }

\* what extract() can be called with: content is optional
ExtractArguments ==
  { [instruction |-> "Extract the star count", schema |-> "StarsSchema", content |-> c] :
      c \in { Undefined, Some({ <<"score", 7>> }) } }

\* an object without fields, objects being sets of <<key, value>>
EmptyObject == {}

\* the parameter default `content = {}`
ContentOrDefault(content) ==
  IF content = Undefined THEN EmptyObject ELSE ValueOf(content)

\* formatText(textAnnotations): one line per annotation, in their order
FormatText(anns) == [j \in 1..Len(anns) |-> anns[j].text]

\* a call of inference extract() that forgets the prior content
InferenceArgsWithoutContent(a, formattedText) ==
  [ instruction |-> a.instruction,
    previouslyExtractedContent |-> EmptyObject,
    domElements |-> formattedText,
    schema |-> a.schema ]

\* the argument of the call of inference extract()
InferenceArgs(a, formattedText) ==
  [ instruction |-> a.instruction,
    previouslyExtractedContent |-> ContentOrDefault(a.content),
    domElements |-> formattedText,
    schema |-> a.schema ]

\* a record passed to this.logger: its message and what its auxiliary carries
LogLine(message, auxiliary) == [message |-> message, auxiliary |-> auxiliary]

\* the class names of the errors an awaited promise can reject with: a page
\* evaluation or wait that times out, and the plain Error the adapters throw
RejectionNames == { "Error", "TimeoutError" }

\* an awaited operation that has settled: its name, its argument if it has
\* one, and whether it resolved
Operation(op, arg, ok) == [op |-> op, arg |-> arg, ok |-> ok]

InitExtract ==
  /\ pc = "waitForSettledDom"
  /\ dom = InitialDOM
  /\ viewport \in Viewports
  /\ startDomDebugCalls = 0
  /\ cleanupDomDebugCalls = 0
  /\ originalDOM = None
  /\ restoreDOMArgs = <<>>
  /\ selectorMap = <<>>
  /\ entryIdx = 0
  /\ queried = <<>>
  /\ processed = <<>>
  /\ seenAnnotations = {}
  /\ textAnnotations = <<>>
  /\ formatTextArgs = <<>>
  /\ extractCalls = <<>>
  /\ extractionResponse = None
  /\ returned = None
  /\ error = ""
  /\ args \in ExtractArguments
  /\ errorName = ""
  /\ logs = <<LogLine("starting extraction", args.instruction)>>
  /\ operations = <<>>

\* await this.waitForSettledDom(domSettleTimeoutMs)
WaitForSettledDom ==
  /\ pc = "waitForSettledDom"
  /\ operations' = Append(operations, Operation("waitForSettledDom", <<>>, TRUE))
  /\ pc' = "startDomDebug"
  /\ UNCHANGED <<dom, viewport, startDomDebugCalls, cleanupDomDebugCalls,
                 originalDOM, restoreDOMArgs, selectorMap, entryIdx, queried,
                 processed, seenAnnotations, textAnnotations, formatTextArgs,
                 extractCalls, extractionResponse, returned, error,
                 args, errorName, logs>>
  /\ UNCHANGED <<llmVars, concurrentVars, bodyVars, runVars>>

\* await this.startDomDebug()
StartDomDebug ==
  /\ pc = "startDomDebug"
  /\ operations' = Append(operations, Operation("startDomDebug", <<>>, TRUE))
  /\ startDomDebugCalls' = startDomDebugCalls + 1
  /\ pc' = "storeDOM"
  /\ UNCHANGED <<dom, viewport, cleanupDomDebugCalls,
                 originalDOM, restoreDOMArgs, selectorMap, entryIdx, queried,
                 processed, seenAnnotations, textAnnotations, formatTextArgs,
                 extractCalls, extractionResponse, returned, error,
                 args, errorName, logs>>
  /\ UNCHANGED <<llmVars, concurrentVars, bodyVars, runVars>>

\* const originalDOM = await page.evaluate(() => window.storeDOM())
StoreDOM ==
  /\ pc = "storeDOM"
  /\ operations' = Append(operations, Operation("storeDOM", <<>>, TRUE))
  /\ originalDOM' = dom
  /\ pc' = "processAllOfDom"
  /\ UNCHANGED <<dom, viewport, startDomDebugCalls, cleanupDomDebugCalls,
                 restoreDOMArgs, selectorMap, entryIdx, queried,
                 processed, seenAnnotations, textAnnotations, formatTextArgs,
                 extractCalls, extractionResponse, returned, error,
                 args, errorName, logs>>
  /\ UNCHANGED <<llmVars, concurrentVars, bodyVars, runVars>>

\* const { selectorMap } = await page.evaluate(() => window.processAllOfDom())
ProcessAllOfDom ==
  /\ pc = "processAllOfDom"
  /\ operations' = Append(operations, Operation("processAllOfDom", <<>>, TRUE))
  /\ \E n \in 0..MaxEntries :
       /\ selectorMap' = SelectorMapOf(n)
       /\ logs' = Append(logs, LogLine("received output from processAllOfDom", n))
  /\ pc' = "createTextBoundingBoxes"
  /\ UNCHANGED <<dom, viewport, startDomDebugCalls, cleanupDomDebugCalls,
                 originalDOM, restoreDOMArgs, entryIdx, queried,
                 processed, seenAnnotations, textAnnotations, formatTextArgs,
                 extractCalls, extractionResponse, returned, error,
                 args, errorName>>
  /\ UNCHANGED <<llmVars, concurrentVars, bodyVars, runVars>>

\* a loop that is left before any entry is queried
AfterEntryLeavingLoop(idx, map) == "restoreDOM"

\* after the loop's last await: either the next getElementBoundingBoxes or,
\* when the entries are exhausted, restoreDOM
AfterEntry(idx, map) ==
  IF idx < Len(map) THEN "getElementBoundingBoxes" ELSE "restoreDOM"

\* await page.evaluate(() => window.createTextBoundingBoxes()); the two
\* collections are created and the outer loop is entered
CreateTextBoundingBoxes ==
  /\ pc = "createTextBoundingBoxes"
  /\ operations' = Append(operations, Operation("createTextBoundingBoxes", <<>>, TRUE))
  /\ dom' = [dom EXCEPT !.textBoundingBoxes = TRUE]
  /\ seenAnnotations' = {}
  /\ textAnnotations' = <<>>
  /\ pc' = AfterEntry(entryIdx, selectorMap)
  /\ UNCHANGED <<viewport, startDomDebugCalls, cleanupDomDebugCalls,
                 originalDOM, restoreDOMArgs, selectorMap, entryIdx, queried,
                 processed, formatTextArgs,
                 extractCalls, extractionResponse, returned, error,
                 args, errorName, logs>>
  /\ UNCHANGED <<llmVars, concurrentVars, bodyVars, runVars>>

\* one iteration of `for (const xpaths of Object.values(selectorMap))`:
\* getElementBoundingBoxes(xpaths[0]) resolves to boundingBoxes and the inner
\* loop runs over them
GetElementBoundingBoxes ==
  /\ pc = "getElementBoundingBoxes"
  /\ operations' = Append(operations, Operation("getElementBoundingBoxes", <<selectorMap[entryIdx + 1][1]>>, TRUE))
  /\ \E boundingBoxes \in SeqsUpTo(Boxes, MaxBoxes) :
       LET acc == VisitBoxes([seen |-> seenAnnotations, anns |-> textAnnotations],
                             boundingBoxes, viewport)
       IN  /\ seenAnnotations' = acc.seen
           /\ textAnnotations' = acc.anns
           /\ processed' = processed \o boundingBoxes
  /\ queried' = Append(queried, selectorMap[entryIdx + 1][1])
  /\ entryIdx' = entryIdx + 1
  /\ pc' = AfterEntry(entryIdx + 1, selectorMap)
  /\ UNCHANGED <<dom, viewport, startDomDebugCalls, cleanupDomDebugCalls,
                 originalDOM, restoreDOMArgs, selectorMap, formatTextArgs,
                 extractCalls, extractionResponse, returned, error,
                 args, errorName, logs>>
  /\ UNCHANGED <<llmVars, concurrentVars, bodyVars, runVars>>

\* await page.evaluate((dom) => window.restoreDOM(dom), originalDOM), then
\* formatText(textAnnotations) and the call of inference extract()
RestoreDOM ==
  /\ pc = "restoreDOM"
  /\ operations' = Append(operations, Operation("restoreDOM", <<originalDOM>>, TRUE))
  /\ dom' = originalDOM
  /\ restoreDOMArgs' = Append(restoreDOMArgs, originalDOM)
  /\ formatTextArgs' = Append(formatTextArgs, textAnnotations)
  /\ extractCalls' = Append(extractCalls, InferenceArgs(args, FormatText(textAnnotations)))
  /\ pc' = "extract"
  /\ UNCHANGED <<viewport, startDomDebugCalls, cleanupDomDebugCalls,
                 originalDOM, selectorMap, entryIdx, queried,
                 processed, seenAnnotations, textAnnotations,
                 extractionResponse, returned, error,
                 args, errorName, logs>>
  /\ UNCHANGED <<llmVars, concurrentVars, bodyVars, runVars>>

\* const extractionResponse = await extract({...}) resolves; the response is
\* destructured and cleanupDomDebug is called
InferenceExtract ==
  /\ pc = "extract"
  /\ operations' = Append(operations, Operation("extract", <<>>, TRUE))
  /\ extractionResponse' \in ExtractionResponses
  /\ cleanupDomDebugCalls' = cleanupDomDebugCalls + 1
  /\ pc' = "cleanupDomDebug"
  /\ UNCHANGED <<dom, viewport, startDomDebugCalls,
                 originalDOM, restoreDOMArgs, selectorMap, entryIdx, queried,
                 processed, seenAnnotations, textAnnotations, formatTextArgs,
                 extractCalls, returned, error,
                 args, errorName, logs>>
  /\ UNCHANGED <<llmVars, concurrentVars, bodyVars, runVars>>

\* a gate that returns the output whatever the flag says
CompletionGateIgnoresFlag(response) ==
  [pc |-> "returned", returned |-> Output(response), error |-> ""]

\* if (completed) { return output; }  throw new Error("Extraction not completed")
CompletionGate(response) ==
  IF Completed(response)
  THEN [pc |-> "returned", returned |-> Output(response), error |-> ""]
  ELSE [pc |-> "thrown", returned |-> None, error |-> "Extraction not completed"]

\* await this.cleanupDomDebug() resolves; the response is logged and the
\* completed flag decides between return and throw
CleanupDomDebug ==
  /\ pc = "cleanupDomDebug"
  /\ operations' = Append(operations, Operation("cleanupDomDebug", <<>>, TRUE))
  /\ LET out == CompletionGate(extractionResponse)
     IN  /\ pc' = out.pc
         /\ returned' = out.returned
         /\ error' = out.error
         /\ errorName' = IF out.error = "" THEN "" ELSE "Error"
  /\ logs' = logs \o <<LogLine("received extraction response", extractionResponse)>>
                  \o (IF Completed(extractionResponse)
                      THEN <<LogLine("got response", extractionResponse)>>
                      ELSE <<>>)
  /\ UNCHANGED <<dom, viewport, startDomDebugCalls, cleanupDomDebugCalls,
                 originalDOM, restoreDOMArgs, selectorMap, entryIdx, queried,
                 processed, seenAnnotations, textAnnotations, formatTextArgs,
                 extractCalls, extractionResponse,
                 args>>
  /\ UNCHANGED <<llmVars, concurrentVars, bodyVars, runVars>>

\* the awaits of extract(): an awaited promise may reject, and extract() has
\* no try/catch/finally, so the rejection leaves extract() at once
PageEvaluations ==
  { "storeDOM", "processAllOfDom", "createTextBoundingBoxes",
    "getElementBoundingBoxes", "restoreDOM" }
AwaitPoints ==
  PageEvaluations
    \cup { "waitForSettledDom", "startDomDebug", "extract", "cleanupDomDebug" }

\* the argument of the operation extract() is awaiting
PendingArg ==
  IF pc = "getElementBoundingBoxes" THEN <<selectorMap[entryIdx + 1][1]>>
  ELSE IF pc = "restoreDOM" THEN <<originalDOM>>
  ELSE <<>>

\* an extract() that goes on to the backend call when a page evaluation fails
AwaitRejectsThenExtract ==
  /\ pc \in AwaitPoints
  /\ operations' = Append(operations, Operation(pc, PendingArg, FALSE))
  /\ IF pc \in PageEvaluations
     THEN /\ pc' = "extract"
          /\ extractCalls' = Append(extractCalls,
                                    InferenceArgs(args, FormatText(textAnnotations)))
          /\ UNCHANGED <<error, errorName>>
     ELSE /\ error' = pc
          /\ errorName' \in RejectionNames
          /\ pc' = "thrown"
          /\ UNCHANGED extractCalls
  /\ UNCHANGED <<dom, viewport, startDomDebugCalls, cleanupDomDebugCalls,
                 originalDOM, restoreDOMArgs, selectorMap, entryIdx, queried,
                 processed, seenAnnotations, textAnnotations, formatTextArgs,
                 extractionResponse, returned,
                 args, logs>>
  /\ UNCHANGED <<llmVars, concurrentVars, bodyVars, runVars>>

\* the promise extract() is awaiting rejects
AwaitRejects ==
  /\ pc \in AwaitPoints
  /\ operations' = Append(operations, Operation(pc, PendingArg, FALSE))
  /\ error' = pc
  /\ errorName' \in RejectionNames
  /\ pc' = "thrown"
  /\ UNCHANGED <<dom, viewport, startDomDebugCalls, cleanupDomDebugCalls,
                 originalDOM, restoreDOMArgs, selectorMap, entryIdx, queried,
                 processed, seenAnnotations, textAnnotations, formatTextArgs,
                 extractCalls, extractionResponse, returned,
                 args, logs>>
  /\ UNCHANGED <<llmVars, concurrentVars, bodyVars, runVars>>

NextExtract ==
  \/ WaitForSettledDom
  \/ StartDomDebug
  \/ StoreDOM
  \/ ProcessAllOfDom
  \/ CreateTextBoundingBoxes
  \/ GetElementBoundingBoxes
  \/ RestoreDOM
  \/ InferenceExtract
  \/ CleanupDomDebug
  \/ AwaitRejects


(***************************************************************************)
(* The adapters                                                            *)
(***************************************************************************)

\* if (!options.retries || options.retries < 5): the number compared with
MaxRetries == 5

ModelName(a) == IF a = "anthropic" THEN "claude-3-5-sonnet-20241022" ELSE "gpt-4o"

\* the pieces requests are made of
\* a message content is a string or an array of parts
Str(s) == [string |-> s]
Parts(p) == [parts |-> p]
IsString(content) == "string" \in DOMAIN content

Messages ==
  << [role |-> "system", content |-> Str("You extract data.")],
     [role |-> "user", content |-> Str("Trust score: 0.93")] >>
Images == { Undefined,
            Some([buffer |-> "jpeg", description |-> Some("a screenshot")]) }
ResponseModels == { Undefined, Some([name |-> "Extraction", schema |-> "{score}"]) }
CallerTool ==
  [ type |-> "function",
    function |-> [name |-> "click", description |-> "click an element",
                  parameters |-> [properties |-> "{selector}", required |-> <<"selector">>]] ]
SecondCallerTool ==
  [ type |-> "function",
    function |-> [name |-> "fill", description |-> "fill a field",
                  parameters |-> [properties |-> "{selector,value}",
                                  required |-> <<"selector", "value">>]] ]
ToolLists == { Undefined, Some(<<CallerTool, SecondCallerTool>>) }
RequestIds == { "req-1", "req-2" }

\* ChatCompletionOptions & { retries?: number }
Requests ==
  [ messages : {Messages}, temperature : {Some(1)}, top_p : {Undefined},
    frequency_penalty : {Undefined}, presence_penalty : {Undefined},
    image : Images, response_model : ResponseModels, tools : ToolLists,
    requestId : {Undefined}, retries : {Undefined} ]

\* structured data a vendor can produce
Data1 == [score |-> 93]
Data2 == [selector |-> "#go"]

\* what client.messages.create can resolve to: response.content
TextBlock == [type |-> "text", text |-> "The trust score is 0.93"]
ToolUse(name, input) == [type |-> "tool_use", name |-> name, input |-> input]
AnthropicResponses(opts) ==
  { [content |-> <<TextBlock>>] }
  \cup ( IF opts.response_model # Undefined
         THEN { [content |-> <<TextBlock, ToolUse("print_extracted_data", Data1)>>] }
         ELSE {} )
  \cup ( IF opts.tools # Undefined
         THEN { [content |-> <<ToolUse("click", Data2)>>] }
         ELSE {} )
  \cup ( IF opts.response_model # Undefined /\ opts.tools # Undefined
         THEN { [content |-> <<ToolUse("click", Data2),
                              ToolUse("print_extracted_data", Data1)>>] }
         ELSE {} )

\* what client.chat.completions.create can resolve to:
\* response.choices[0].message.content
OpenAIResponses(opts) ==
  { [choices |-> << [message |-> [role |-> "assistant", content |-> c]] >>] :
      c \in {"{\"score\":93}", "Sorry, I cannot"} }

\* JSON.parse(extractedData): the parsed value, or Undefined when it throws
JsonParse(text) == IF text = "{\"score\":93}" THEN Some(Data1) ELSE Undefined

\* a fingerprint that also takes the request id in
AnthropicCacheOptionsWithRequestId(opts) ==
  [ model |-> ModelName("anthropic"), messages |-> opts.messages,
    temperature |-> opts.temperature, image |-> opts.image,
    response_model |-> opts.response_model, tools |-> opts.tools,
    retries |-> opts.retries, requestId |-> opts.requestId ]

\* AnthropicClient: const cacheOptions = {...}
AnthropicCacheOptions(opts) ==
  [ model |-> ModelName("anthropic"), messages |-> opts.messages,
    temperature |-> opts.temperature, image |-> opts.image,
    response_model |-> opts.response_model, tools |-> opts.tools,
    retries |-> opts.retries ]

\* OpenAIClient: const cacheOptions = {...}
OpenAICacheOptions(opts) ==
  [ model |-> ModelName("openai"), messages |-> opts.messages,
    temperature |-> opts.temperature, top_p |-> opts.top_p,
    frequency_penalty |-> opts.frequency_penalty,
    presence_penalty |-> opts.presence_penalty, image |-> opts.image,
    response_model |-> opts.response_model ]

CacheOptions(a, opts) ==
  IF a = "anthropic" THEN AnthropicCacheOptions(opts) ELSE OpenAICacheOptions(opts)

\* cacheOptions.messages is the array options.messages itself: what the cache
\* is handed is cacheOptions with the messages as they are at that moment
CacheOptionsNow(co, opts) == [co EXCEPT !.messages = opts.messages]

\* LLMCache.get(options, requestId): the entry stored for these inputs, or null
CacheGet(c, inputs, requestId) ==
  IF inputs \in DOMAIN c THEN Some(c[inputs]) ELSE Undefined

\* LLMCache.set(options, value, requestId): one entry per inputs, last write wins
CacheSet(c, inputs, value, requestId) ==
  [k \in (DOMAIN c) \cup {inputs} |-> IF k = inputs THEN value ELSE c[k]]

\* a check that never takes the cached branch
IsHitNever(got) == FALSE

\* if (cachedResponse)
IsHit(got) == got # Undefined

\* the message of the error thrown when the retries are exhausted
NoToolUseError == "Create Chat Completion Failed: No tool use with input in response"

\* a check that stops one retry earlier
RetryAllowedOneLess(opts) ==
  opts.retries = Undefined \/ ValueOf(opts.retries) = 0
    \/ ValueOf(opts.retries) < MaxRetries - 1

\* if (!options.retries || options.retries < 5)
RetryAllowed(opts) ==
  opts.retries = Undefined \/ ValueOf(opts.retries) = 0
    \/ ValueOf(opts.retries) < MaxRetries

\* retries: (options.retries ?? 0) + 1
NextRetries(opts) ==
  Some((IF opts.retries = Undefined THEN 0 ELSE ValueOf(opts.retries)) + 1)

\* buffer.toString("base64") for the buffers of the model
Base64(buffer) ==
  CASE buffer = "jpeg" -> "anBlZw=="
    [] buffer = "png"  -> "cG5n"

\* the truthiness of an optional string: undefined and "" are falsy
Truthy(opt) == opt # Undefined /\ ValueOf(opt) # ""

\* a screenshot message with the caption before the image
ScreenshotMessageCaptionFirst(image) ==
  [ role |-> "user",
    content |-> Parts(
      ( IF Truthy(image.description)
        THEN << [type |-> "text", text |-> ValueOf(image.description)] >>
        ELSE <<>> )
      \o << [ type |-> "image_url",
              image_url |-> [url |-> <<"data:image/jpeg;base64,", Base64(image.buffer)>>] ] >> ) ]

\* OpenAIClient: the screenshot message built from options.image
ScreenshotMessage(image) ==
  [ role |-> "user",
    content |-> Parts(
      << [ type |-> "image_url",
           image_url |-> [url |-> <<"data:image/jpeg;base64,", Base64(image.buffer)>>] ] >>
      \o ( IF Truthy(image.description)
           THEN << [type |-> "text", text |-> ValueOf(image.description)] >>
           ELSE <<>> ) ) ]

\* the options object when the vendor call is issued: OpenAIClient pushes the
\* screenshot message onto options.messages, AnthropicClient builds its
\* messages in a fresh array
OptionsAtVendorCall(a, opts) ==
  IF a = "openai" /\ opts.image # Undefined
  THEN [opts EXCEPT !.messages = Append(@, ScreenshotMessage(ValueOf(opts.image)))]
  ELSE opts

\* OpenAIClient: const formattedMessages = options.messages.map(...)
OpenAIFormattedMessages(messages) ==
  [ i \in 1..Len(messages) |->
      IF IsString(messages[i].content) THEN messages[i]
      ELSE [ messages[i] EXCEPT !.content =
               Parts([ k \in 1..Len(messages[i].content.parts) |->
                         LET part == messages[i].content.parts[k]
                         IN  IF "image_url" \in DOMAIN part
                             THEN [image_url |-> [url |-> part.image_url.url],
                                   type |-> "image_url"]
                             ELSE [text |-> part.text, type |-> "text"] ]) ] ]

\* zodResponseFormat(schema, name)
ZodResponseFormat(response_model) ==
  [ type |-> "json_schema",
    json_schema |-> [name |-> response_model.name, strict |-> TRUE,
                     schema |-> <<"json schema of", response_model.schema>>] ]

\* OpenAIClient: const body = {...}; opts is the options object after the
\* screenshot message was pushed
OpenAIBody(opts) ==
  [ model |-> ModelName("openai"),
    messages |-> OpenAIFormattedMessages(opts.messages),
    response_format |-> IF opts.response_model # Undefined
                        THEN Some(ZodResponseFormat(ValueOf(opts.response_model)))
                        ELSE Undefined,
    stream |-> FALSE,
    tools |-> IF opts.tools = Undefined THEN Undefined
              ELSE Some(SelectSeq(ValueOf(opts.tools), LAMBDA tool : "function" \in DOMAIN tool)),
    temperature |-> opts.temperature, top_p |-> opts.top_p,
    frequency_penalty |-> opts.frequency_penalty,
    presence_penalty |-> opts.presence_penalty,
    retries |-> opts.retries ]

\* a part of an array content that has no image
NoImagePart(part) == part.type # "image_url"

\* a choice of the last system message without image parts
SystemMessageLast(messages) ==
  LET hits == SelectSeq(messages, LAMBDA msg :
                /\ msg.role = "system"
                /\ \/ IsString(msg.content)
                   \/ \A k \in 1..Len(msg.content.parts) : NoImagePart(msg.content.parts[k]))
  IN  IF hits = <<>> THEN Undefined ELSE Some(hits[Len(hits)])

\* AnthropicClient: const systemMessage = options.messages.find(...)
SystemMessage(messages) ==
  LET hits == SelectSeq(messages, LAMBDA msg :
                /\ msg.role = "system"
                /\ \/ IsString(msg.content)
                   \/ \A k \in 1..Len(msg.content.parts) : NoImagePart(msg.content.parts[k]))
  IN  IF hits = <<>> THEN Undefined ELSE Some(Head(hits))

\* the value of an array element the map callback returned nothing for
JsUndefined == [undefined |-> TRUE]

\* AnthropicClient: userMessages and their mapping to formattedMessages
AnthropicFormattedMessages(messages) ==
  LET userMessages == SelectSeq(messages, LAMBDA msg : msg.role # "system")
  IN  [ i \in 1..Len(userMessages) |->
          IF IsString(userMessages[i].content)
          THEN [role |-> userMessages[i].role, content |-> userMessages[i].content]
          ELSE [ role |-> userMessages[i].role,
                 content |-> Parts([ k \in 1..Len(userMessages[i].content.parts) |->
                                       LET part == userMessages[i].content.parts[k]
                                       IN  IF part.type = "text"
                                           THEN [type |-> "text", text |-> part.text]
                                           ELSE JsUndefined ]) ] ]

\* AnthropicClient: the screenshot message built from options.image
AnthropicScreenshotMessage(image) ==
  [ role |-> "user",
    content |-> Parts(
      << [ type |-> "image",
           source |-> [type |-> "base64", media_type |-> "image/jpeg",
                       data |-> Base64(image.buffer)] ] >>
      \o ( IF Truthy(image.description)
           THEN << [type |-> "text", text |-> ValueOf(image.description)] >>
           ELSE <<>> ) ) ]

\* AnthropicClient: formattedMessages when the vendor call is issued
AnthropicMessages(opts) ==
  AnthropicFormattedMessages(opts.messages)
    \o ( IF opts.image # Undefined
         THEN <<AnthropicScreenshotMessage(ValueOf(opts.image))>>
         ELSE <<>> )

\* AnthropicClient: a caller tool in Anthropic's format
AnthropicTool(tool) ==
  IF tool.type = "function"
  THEN [ name |-> tool.function.name,
         description |-> tool.function.description,
         input_schema |-> [ type |-> "object",
                            properties |-> tool.function.parameters.properties,
                            required |-> tool.function.parameters.required ] ]
  ELSE tool

\* AnthropicClient: toolDefinition, built from zodToJsonSchema(schema)
ToolDefinition(response_model) ==
  [ name |-> "print_extracted_data",
    description |-> "Prints the extracted data based on the provided schema.",
    input_schema |-> [ type |-> "object",
                       properties |-> <<"properties of", response_model.schema>>,
                       required |-> <<"required of", response_model.schema>> ] ]

\* the caller's tools in Anthropic's format
MappedTools(opts) ==
  [ i \in 1..Len(ValueOf(opts.tools)) |-> AnthropicTool(ValueOf(opts.tools)[i]) ]

\* a tool list that always ends with the forcing tool
AnthropicToolsAlwaysForcing(opts) ==
  Some( (IF opts.tools = Undefined THEN <<>> ELSE MappedTools(opts))
        \o <<ToolDefinition([name |-> "Extraction", schema |-> "{score}"])>> )

\* a tool list that starts with the forcing tool
AnthropicToolsForcingFirst(opts) ==
  LET mapped == IF opts.tools = Undefined THEN Undefined ELSE Some(MappedTools(opts))
  IN  IF opts.response_model # Undefined
      THEN Some( <<ToolDefinition(ValueOf(opts.response_model))>>
                 \o (IF mapped = Undefined THEN <<>> ELSE ValueOf(mapped)) )
      ELSE mapped

\* AnthropicClient: anthropicTools when the vendor call is issued
AnthropicTools(opts) ==
  LET mapped == IF opts.tools = Undefined THEN Undefined ELSE Some(MappedTools(opts))
  IN  IF opts.response_model # Undefined
      THEN Some( (IF mapped = Undefined THEN <<>> ELSE ValueOf(mapped))
                 \o <<ToolDefinition(ValueOf(opts.response_model))>> )
      ELSE mapped

\* AnthropicClient: the argument of this.client.messages.create
AnthropicBody(opts) ==
  [ model |-> ModelName("anthropic"),
    max_tokens |-> 1500,
    messages |-> AnthropicMessages(opts),
    tools |-> AnthropicTools(opts),
    system |-> LET systemMessage == SystemMessage(opts.messages)
               IN  IF systemMessage # Undefined
                   THEN Some(ValueOf(systemMessage).content)
                   ELSE Undefined,
    temperature |-> opts.temperature ]

\* what the adapter sends to the vendor for the options object opts
VendorBody(a, opts) ==
  IF a = "anthropic" THEN AnthropicBody(opts) ELSE OpenAIBody(opts)

\* a search that takes the last block of the type
LastOfType(content, type) ==
  LET hits == SelectSeq(content, LAMBDA c : c.type = type)
  IN  IF hits = <<>> THEN Undefined ELSE Some(hits[Len(hits)])

\* AnthropicClient: response.content.find((c) => c.type === type)
FirstOfType(content, type) ==
  LET hits == SelectSeq(content, LAMBDA c : c.type = type)
  IN  IF hits = <<>> THEN Undefined ELSE Some(Head(hits))
\* AnthropicClient: const transformedResponse = {...}
TransformedResponse(response) ==
  LET text == FirstOfType(response.content, "text")
      uses == SelectSeq(response.content, LAMBDA c : c.type = "tool_use")
  IN  [ object |-> "chat.completion",
        choices |-> << [ index |-> 0,
                         message |-> [ role |-> "assistant",
                                       content |-> IF text = Undefined THEN Undefined
                                                   ELSE Some(ValueOf(text).text),
                                       tool_calls |-> [i \in 1..Len(uses) |->
                                                         [ type |-> "function",
                                                           name |-> uses[i].name,
                                                           arguments |-> uses[i].input ]] ] ] >> ]

InitLLM ==
  /\ adapter \in {"anthropic", "openai"}
  /\ enableCaching \in BOOLEAN
  /\ hasCache \in BOOLEAN
  /\ baseRequest \in Requests
  /\ calls = 0
  /\ llmPc = "idle"
  /\ request = Undefined
  /\ options = Undefined
  /\ cacheOptions = Undefined
  /\ cache = << >>
  /\ cachedResponse = Undefined
  /\ invReadDone = FALSE
  /\ invVendorCalls = 0
  /\ invCacheWrites = 0
  /\ callVendorCalls = 0
  /\ vendorResponses = <<>>
  /\ vendorRequests = <<>>
  /\ cacheBefore = << >>
  /\ callWrites = <<>>
  /\ firstRead = "none"
  /\ reads = {}
  /\ result = Undefined
  /\ llmError = ""
  /\ llmLogs = <<>>

\* OpenAIClient logs "creating chat completion" a second time, just before it
\* builds the body of the vendor call
BeforeVendorLogs(a) ==
  IF a = "openai" THEN <<"creating chat completion">> ELSE <<>>

\* createChatCompletion(opts) runs from its entry to its first await: the
\* cacheOptions are built; with caching enabled the first await is cache.get,
\* otherwise it is the vendor call. vendorCallsBefore counts the vendor calls
\* the caller's call has issued before this invocation, requestsBefore their
\* bodies, logsBefore holds what it has logged.
EnterInvocation(opts, vendorCallsBefore, requestsBefore, logsBefore) ==
  /\ cacheOptions' = CacheOptions(adapter, opts)
  /\ llmLogs' = logsBefore \o <<"creating chat completion">>
                  \o (IF enableCaching THEN <<>> ELSE BeforeVendorLogs(adapter))
  /\ cachedResponse' = Undefined
  /\ invReadDone' = FALSE
  /\ invCacheWrites' = 0
  /\ IF enableCaching
     THEN /\ options' = opts
          /\ llmPc' = "cache.get"
          /\ invVendorCalls' = 0
          /\ callVendorCalls' = vendorCallsBefore
          /\ vendorRequests' = requestsBefore
     ELSE /\ options' = OptionsAtVendorCall(adapter, opts)
          /\ llmPc' = "vendor"
          /\ invVendorCalls' = 1
          /\ callVendorCalls' = vendorCallsBefore + 1
          /\ vendorRequests' = Append(requestsBefore,
                                      VendorBody(adapter, OptionsAtVendorCall(adapter, opts)))

\* a caller calls createChatCompletion with a fresh options object
StartCall ==
  /\ llmPc \in {"idle", "done"}
  /\ calls < MaxCalls
  /\ calls' = calls + 1
  /\ \E rid \in RequestIds :
       LET opts == [baseRequest EXCEPT !.requestId = Some(rid)]
       IN  /\ request' = opts
           /\ EnterInvocation(opts, 0, <<>>, <<>>)
  /\ vendorResponses' = <<>>
  /\ cacheBefore' = cache
  /\ callWrites' = <<>>
  /\ firstRead' = "none"
  /\ result' = Undefined
  /\ llmError' = ""
  /\ UNCHANGED <<adapter, enableCaching, hasCache, baseRequest, cache, reads>>
  /\ UNCHANGED <<extractVars, concurrentVars, bodyVars, runVars>>

\* await this.cache.get(cacheOptions, options.requestId) resolves: a cached
\* response is returned at once; otherwise the vendor call is issued
CacheGetResolves ==
  /\ llmPc = "cache.get"
  /\ hasCache
  /\ LET inputs == CacheOptionsNow(cacheOptions, options)
         got == CacheGet(cache, inputs, options.requestId)
     IN  /\ cachedResponse' = got
         /\ reads' = reads \cup { [options |-> options, inputs |-> inputs,
                                   cache |-> cache, got |-> got] }
         /\ firstRead' = IF firstRead # "none" THEN firstRead
                         ELSE IF got # Undefined THEN "hit" ELSE "miss"
         /\ IF IsHit(got)
            THEN /\ result' = got
                 /\ llmPc' = "done"
                 /\ llmLogs' = Append(llmLogs, "LLM cache hit - returning cached response")
                 /\ UNCHANGED <<options, invVendorCalls, callVendorCalls, vendorRequests>>
            ELSE /\ options' = OptionsAtVendorCall(adapter, options)
                 /\ vendorRequests' = Append(vendorRequests,
                                             VendorBody(adapter, OptionsAtVendorCall(adapter, options)))
                 /\ llmPc' = "vendor"
                 /\ llmLogs' = Append(llmLogs, "LLM cache miss - no cached response found")
                                 \o BeforeVendorLogs(adapter)
                 /\ invVendorCalls' = invVendorCalls + 1
                 /\ callVendorCalls' = callVendorCalls + 1
                 /\ UNCHANGED result
  /\ invReadDone' = TRUE
  /\ UNCHANGED <<adapter, enableCaching, hasCache, baseRequest, calls, request,
                 cacheOptions, cache, invCacheWrites, vendorResponses, cacheBefore,
                 callWrites, llmError>>
  /\ UNCHANGED <<extractVars, concurrentVars, bodyVars, runVars>>

\* a return that stores the value whether or not caching is enabled
ReturnAlwaysCaching(value, said, cachedLog) ==
  /\ result' = Some(value)
  /\ llmPc' = "done"
  /\ llmLogs' = llmLogs \o said \o cachedLog
  /\ cache' = CacheSet(cache, CacheOptionsNow(cacheOptions, options), value,
                       options.requestId)
  /\ callWrites' = Append(callWrites, [inputs |-> CacheOptionsNow(cacheOptions, options),
                                       value |-> value])
  /\ invCacheWrites' = invCacheWrites + 1
  /\ UNCHANGED <<options, cacheOptions, cachedResponse, invReadDone, invVendorCalls,
                 callVendorCalls, vendorRequests, llmError>>

\* the call returns value after logging said; with caching enabled the value
\* is stored first (cache.set is not awaited) and cachedLog is logged
ReturnCaching(value, said, cachedLog) ==
  /\ result' = Some(value)
  /\ llmPc' = "done"
  /\ llmLogs' = llmLogs \o said \o (IF enableCaching THEN cachedLog ELSE <<>>)
  /\ IF enableCaching
     THEN /\ cache' = CacheSet(cache, CacheOptionsNow(cacheOptions, options), value,
                               options.requestId)
          /\ callWrites' = Append(callWrites,
                                  [inputs |-> CacheOptionsNow(cacheOptions, options),
                                   value |-> value])
          /\ invCacheWrites' = invCacheWrites + 1
     ELSE UNCHANGED <<cache, callWrites, invCacheWrites>>
  /\ UNCHANGED <<options, cacheOptions, cachedResponse, invReadDone, invVendorCalls,
                 callVendorCalls, vendorRequests, llmError>>

\* a throw that stores the error under the request's fingerprint first
ThrowAfterWrite(err, said) ==
  /\ llmError' = err
  /\ llmPc' = "done"
  /\ llmLogs' = llmLogs \o said
  /\ cache' = CacheSet(cache, CacheOptionsNow(cacheOptions, options), err,
                       options.requestId)
  /\ callWrites' = Append(callWrites, [inputs |-> CacheOptionsNow(cacheOptions, options),
                                       value |-> err])
  /\ UNCHANGED <<options, cacheOptions, cachedResponse, invReadDone,
                 invVendorCalls, invCacheWrites, callVendorCalls, vendorRequests, result>>

\* the call throws err after logging said
Throw(err, said) ==
  /\ llmError' = err
  /\ llmPc' = "done"
  /\ llmLogs' = llmLogs \o said
  /\ UNCHANGED <<options, cacheOptions, cache, callWrites, cachedResponse, invReadDone,
                 invVendorCalls, invCacheWrites, callVendorCalls, vendorRequests, result>>

\* AnthropicClient: await this.client.messages.create({...}) resolves
AnthropicVendorResolves ==
  /\ llmPc = "vendor"
  /\ adapter = "anthropic"
  /\ \E response \in AnthropicResponses(options) :
       /\ vendorResponses' = Append(vendorResponses, response)
       /\ IF options.response_model # Undefined
          THEN LET toolUse == FirstOfType(response.content, "tool_use")
               IN  IF toolUse # Undefined
                   THEN ReturnCaching(ValueOf(toolUse).input,
                                      <<"response", "transformed response">>, <<>>)
                   ELSE IF RetryAllowed(options)
                        THEN /\ EnterInvocation([options EXCEPT !.retries = NextRetries(options)],
                                              callVendorCalls, vendorRequests,
                                              llmLogs \o <<"response", "transformed response">>)
                             /\ UNCHANGED <<cache, callWrites, result, llmError>>
                        ELSE Throw("Create Chat Completion Failed: No tool use with input in response",
                                   <<"response", "transformed response",
                                     "error creating chat completion">>)
          ELSE ReturnCaching(TransformedResponse(response),
                             <<"response", "transformed response">>, <<"cached response">>)
  /\ UNCHANGED <<adapter, enableCaching, hasCache, baseRequest, calls, request,
                 cacheBefore, firstRead, reads>>
  /\ UNCHANGED <<extractVars, concurrentVars, bodyVars, runVars>>

\* an OpenAIClient that answers unparsable content by calling itself again
OpenAIVendorResolvesRetrying ==
  /\ llmPc = "vendor"
  /\ adapter = "openai"
  /\ \E response \in OpenAIResponses(options) :
       /\ vendorResponses' = Append(vendorResponses, response)
       /\ IF options.response_model # Undefined
          THEN LET parsedData == JsonParse(response.choices[1].message.content)
               IN  IF parsedData = Undefined
                   THEN IF RetryAllowed(options)
                        THEN /\ EnterInvocation([options EXCEPT !.retries = NextRetries(options)],
                                              callVendorCalls, vendorRequests,
                                              llmLogs \o <<"response">>)
                             /\ UNCHANGED <<cache, callWrites, result, llmError>>
                        ELSE Throw("SyntaxError", <<"response">>)
                   ELSE ReturnCaching(ValueOf(parsedData), <<"response">>, <<>>)
          ELSE ReturnCaching(response, <<"response">>, <<"caching response">>)
  /\ UNCHANGED <<adapter, enableCaching, hasCache, baseRequest, calls, request,
                 cacheBefore, firstRead, reads>>
  /\ UNCHANGED <<extractVars, concurrentVars, bodyVars, runVars>>

\* OpenAIClient: await this.client.chat.completions.create(body) resolves;
\* JSON.parse of unparsable content throws out of createChatCompletion
OpenAIVendorResolves ==
  /\ llmPc = "vendor"
  /\ adapter = "openai"
  /\ \E response \in OpenAIResponses(options) :
       /\ vendorResponses' = Append(vendorResponses, response)
       /\ IF options.response_model # Undefined
          THEN LET parsedData == JsonParse(response.choices[1].message.content)
               IN  IF parsedData = Undefined
                   THEN Throw("SyntaxError", <<"response">>)
                   ELSE ReturnCaching(ValueOf(parsedData), <<"response">>, <<>>)
          ELSE ReturnCaching(response, <<"response">>, <<"caching response">>)
  /\ UNCHANGED <<adapter, enableCaching, hasCache, baseRequest, calls, request,
                 cacheBefore, firstRead, reads>>
  /\ UNCHANGED <<extractVars, concurrentVars, bodyVars, runVars>>

\* the vendor call rejects: neither adapter catches it
VendorRejects ==
  /\ llmPc = "vendor"
  /\ Throw("vendor call failed", <<>>)
  /\ UNCHANGED <<adapter, enableCaching, hasCache, baseRequest, calls, request,
                 vendorResponses, cacheBefore, firstRead, reads>>
  /\ UNCHANGED <<extractVars, concurrentVars, bodyVars, runVars>>

\* what the failed read of the cache rejects with: the cache's own error, or
\* the TypeError of calling get on an undefined this.cache
CacheReadError(injected) ==
  IF injected THEN "cache.get failed"
  ELSE "TypeError: Cannot read properties of undefined (reading 'get')"

\* await this.cache.get(...) fails: neither adapter catches it
CacheGetRejects ==
  /\ llmPc = "cache.get"
  /\ Throw(CacheReadError(hasCache), <<>>)
  /\ UNCHANGED <<adapter, enableCaching, hasCache, baseRequest, calls, request,
                 vendorResponses, cacheBefore, firstRead, reads>>
  /\ UNCHANGED <<extractVars, concurrentVars, bodyVars, runVars>>

NextLLM ==
  \/ StartCall
  \/ CacheGetResolves
  \/ AnthropicVendorResolves
  \/ OpenAIVendorResolves
  \/ VendorRejects
  \/ CacheGetRejects

(***************************************************************************)
(* Two overlapping calls of AnthropicClient.createChatCompletion            *)
(***************************************************************************)
Callers == {1, 2}
RequestIdOf(p) == IF p = 1 THEN "req-1" ELSE "req-2"

InitConcurrent ==
  /\ sharedRequest \in Requests
  /\ sharedCache = << >>
  /\ callerPc = [p \in Callers |-> "idle"]
  /\ callerOptions = [p \in Callers |-> Undefined]
  /\ callerVendorCalls = [p \in Callers |-> 0]
  /\ callerVendorValue = [p \in Callers |-> Undefined]
  /\ callerResult = [p \in Callers |-> Undefined]
  /\ callerError = [p \in Callers |-> ""]
  /\ cacheWrites = <<>>

\* caller p calls createChatCompletion: caching is enabled, so the invocation
\* runs to await this.cache.get(...)
ConcurrentStart(p) ==
  /\ callerPc[p] = "idle"
  /\ callerOptions' = [callerOptions EXCEPT
                         ![p] = [sharedRequest EXCEPT !.requestId = Some(RequestIdOf(p))]]
  /\ callerPc' = [callerPc EXCEPT ![p] = "cache.get"]
  /\ UNCHANGED <<sharedRequest, sharedCache, callerVendorCalls, callerVendorValue,
                 callerResult, callerError, cacheWrites>>
  /\ UNCHANGED <<extractVars, llmVars, bodyVars, runVars>>

\* p's await this.cache.get(cacheOptions, options.requestId) resolves
ConcurrentCacheGet(p) ==
  /\ callerPc[p] = "cache.get"
  /\ LET got == CacheGet(sharedCache, AnthropicCacheOptions(callerOptions[p]),
                         callerOptions[p].requestId)
     IN  IF IsHit(got)
         THEN /\ callerResult' = [callerResult EXCEPT ![p] = got]
              /\ callerPc' = [callerPc EXCEPT ![p] = "done"]
              /\ UNCHANGED callerVendorCalls
         ELSE /\ callerPc' = [callerPc EXCEPT ![p] = "vendor"]
              /\ callerVendorCalls' = [callerVendorCalls EXCEPT ![p] = @ + 1]
              /\ UNCHANGED callerResult
  /\ UNCHANGED <<sharedRequest, sharedCache, callerOptions, callerVendorValue,
                 callerError, cacheWrites>>
  /\ UNCHANGED <<extractVars, llmVars, bodyVars, runVars>>

\* p stores value with this.cache.set(cacheOptions, value, requestId), which
\* is not awaited, and returns it
ConcurrentReturn(p, value) ==
  LET inputs == AnthropicCacheOptions(callerOptions[p])
  IN  /\ sharedCache' = CacheSet(sharedCache, inputs, value, callerOptions[p].requestId)
      /\ cacheWrites' = Append(cacheWrites, [by |-> p, inputs |-> inputs, value |-> value])
      /\ callerVendorValue' = [callerVendorValue EXCEPT ![p] = Some(value)]
      /\ callerResult' = [callerResult EXCEPT ![p] = Some(value)]
      /\ callerPc' = [callerPc EXCEPT ![p] = "done"]
      /\ UNCHANGED <<callerOptions, callerError>>

\* p's await this.client.messages.create({...}) resolves
ConcurrentVendorResolves(p) ==
  /\ callerPc[p] = "vendor"
  /\ \E response \in AnthropicResponses(callerOptions[p]) :
       IF callerOptions[p].response_model # Undefined
       THEN LET toolUse == FirstOfType(response.content, "tool_use")
            IN  IF toolUse # Undefined
                THEN ConcurrentReturn(p, ValueOf(toolUse).input)
                ELSE IF RetryAllowed(callerOptions[p])
                     THEN /\ callerOptions' = [callerOptions EXCEPT
                                                ![p].retries = NextRetries(callerOptions[p])]
                          /\ callerPc' = [callerPc EXCEPT ![p] = "cache.get"]
                          /\ UNCHANGED <<sharedCache, cacheWrites, callerVendorValue,
                                         callerResult, callerError>>
                     ELSE /\ callerError' = [callerError EXCEPT ![p] = NoToolUseError]
                          /\ callerPc' = [callerPc EXCEPT ![p] = "done"]
                          /\ UNCHANGED <<sharedCache, cacheWrites, callerVendorValue,
                                         callerResult, callerOptions>>
       ELSE ConcurrentReturn(p, TransformedResponse(response))
  /\ UNCHANGED <<sharedRequest, callerVendorCalls>>
  /\ UNCHANGED <<extractVars, llmVars, bodyVars, runVars>>

\* p's cache read or vendor call rejects: createChatCompletion catches neither
ConcurrentAwaitRejects(p) ==
  /\ callerPc[p] \in {"cache.get", "vendor"}
  /\ callerError' = [callerError EXCEPT
                       ![p] = IF callerPc[p] = "vendor" THEN "vendor call failed"
                              ELSE CacheReadError(TRUE)]
  /\ callerPc' = [callerPc EXCEPT ![p] = "done"]
  /\ UNCHANGED <<sharedRequest, sharedCache, callerOptions, callerVendorCalls,
                 callerVendorValue, callerResult, cacheWrites>>
  /\ UNCHANGED <<extractVars, llmVars, bodyVars, runVars>>

NextConcurrent ==
  \/ \E p \in Callers : ConcurrentStart(p)
  \/ \E p \in Callers : ConcurrentCacheGet(p)
  \/ \E p \in Callers : ConcurrentVendorResolves(p)
  \/ \E p \in Callers : ConcurrentAwaitRejects(p)

(***************************************************************************)
(* The request body of one options object                                  *)
(***************************************************************************)
\* the messages a caller can put into options.messages
SystemPrompt == [role |-> "system", content |-> Str("You extract data.")]
SecondSystemPrompt == [role |-> "system", content |-> Str("Answer in JSON.")]
SystemWithImage ==
  [ role |-> "system",
    content |-> Parts(<< [ type |-> "image_url",
                           image_url |-> [url |-> <<"data:image/jpeg;base64,", "bG9nbw==">>] ] >>) ]
UserText == [role |-> "user", content |-> Str("Trust score: 0.93")]
AssistantText == [role |-> "assistant", content |-> Str("Which field?")]
UserParts ==
  [ role |-> "user",
    content |-> Parts(<< [ type |-> "text", text |-> "the score field" ],
                         [ type |-> "image_url",
                           image_url |-> [url |-> <<"data:image/jpeg;base64,", "Y3JvcA==">>] ] >>) ]
MessagePool ==
  { SystemPrompt, SecondSystemPrompt, SystemWithImage, UserText, AssistantText, UserParts }

MaxMessages == 3

\* options.image: absent, without description, with an empty one, with one
BodyImages ==
  { Undefined,
    Some([buffer |-> "jpeg", description |-> Undefined]),
    Some([buffer |-> "jpeg", description |-> Some("")]),
    Some([buffer |-> "png", description |-> Some("a screenshot")]) }

BodyRequests ==
  [ messages : SeqsUpTo(MessagePool, MaxMessages), temperature : {Some(1)},
    top_p : {Undefined}, frequency_penalty : {Undefined}, presence_penalty : {Undefined},
    image : BodyImages, response_model : {Undefined}, tools : {Undefined},
    requestId : {Some("r1")}, retries : {Undefined} ]

\* no body is being built
BodyIdle ==
  /\ bodyAdapter = "anthropic"
  /\ bodyRequest = Undefined
  /\ bodySent = Undefined

\* AnthropicClient builds the argument of this.client.messages.create
BuildAnthropicBody ==
  /\ bodyAdapter = "anthropic"
  /\ bodySent = Undefined
  /\ bodySent' = Some(AnthropicBody(bodyRequest))
  /\ UNCHANGED <<bodyAdapter, bodyRequest>>
  /\ UNCHANGED <<extractVars, llmVars, concurrentVars, runVars>>

\* OpenAIClient pushes the screenshot message and builds the body
BuildOpenAIBody ==
  /\ bodyAdapter = "openai"
  /\ bodySent = Undefined
  /\ bodySent' = Some(OpenAIBody(OptionsAtVendorCall("openai", bodyRequest)))
  /\ UNCHANGED <<bodyAdapter, bodyRequest>>
  /\ UNCHANGED <<extractVars, llmVars, concurrentVars, runVars>>

NextBody ==
  \/ BuildAnthropicBody
  \/ BuildOpenAIBody

(***************************************************************************)
(* Two extract() calls on one page                                         *)
(***************************************************************************)
Runs == {"A", "B"}

\* window.storeDOM(): the snapshot of the live DOM
PageStoreDOM(d) == d
\* window.createTextBoundingBoxes(): the boxes are injected into the live DOM
PageCreateTextBoundingBoxes(d) == [d EXCEPT !.textBoundingBoxes = TRUE]
\* window.restoreDOM(snapshot): the live DOM becomes the snapshot
PageRestoreDOM(d, snapshot) == snapshot

\* no extract() call uses the page
RunsIdle ==
  /\ pageDom = InitialDOM
  /\ runPc = [r \in Runs |-> "idle"]
  /\ runOriginalDOM = [r \in Runs |-> None]
  /\ runEntries = [r \in Runs |-> 0]
  /\ runEntryIdx = [r \in Runs |-> 0]
  /\ runFailed = [r \in Runs |-> FALSE]

\* both calls were made and are suspended at their first await
InitRuns ==
  /\ pageDom = InitialDOM
  /\ runPc = [r \in Runs |-> "waitForSettledDom"]
  /\ runOriginalDOM = [r \in Runs |-> None]
  /\ runEntries = [r \in Runs |-> 0]
  /\ runEntryIdx = [r \in Runs |-> 0]
  /\ runFailed = [r \in Runs |-> FALSE]

\* await this.waitForSettledDom(domSettleTimeoutMs)
RunWaitForSettledDom(r) ==
  /\ runPc[r] = "waitForSettledDom"
  /\ runPc' = [runPc EXCEPT ![r] = "startDomDebug"]
  /\ UNCHANGED <<pageDom, runOriginalDOM, runEntries, runEntryIdx, runFailed>>
  /\ UNCHANGED <<extractVars, llmVars, concurrentVars, bodyVars>>

\* await this.startDomDebug()
RunStartDomDebug(r) ==
  /\ runPc[r] = "startDomDebug"
  /\ runPc' = [runPc EXCEPT ![r] = "storeDOM"]
  /\ UNCHANGED <<pageDom, runOriginalDOM, runEntries, runEntryIdx, runFailed>>
  /\ UNCHANGED <<extractVars, llmVars, concurrentVars, bodyVars>>

\* const originalDOM = await page.evaluate(() => window.storeDOM())
RunStoreDOM(r) ==
  /\ runPc[r] = "storeDOM"
  /\ runOriginalDOM' = [runOriginalDOM EXCEPT ![r] = PageStoreDOM(pageDom)]
  /\ runPc' = [runPc EXCEPT ![r] = "processAllOfDom"]
  /\ UNCHANGED <<pageDom, runEntries, runEntryIdx, runFailed>>
  /\ UNCHANGED <<extractVars, llmVars, concurrentVars, bodyVars>>

\* const { selectorMap } = await page.evaluate(() => window.processAllOfDom())
RunProcessAllOfDom(r) ==
  /\ runPc[r] = "processAllOfDom"
  /\ \E n \in 0..MaxEntries : runEntries' = [runEntries EXCEPT ![r] = n]
  /\ runPc' = [runPc EXCEPT ![r] = "createTextBoundingBoxes"]
  /\ UNCHANGED <<pageDom, runOriginalDOM, runEntryIdx, runFailed>>
  /\ UNCHANGED <<extractVars, llmVars, concurrentVars, bodyVars>>

\* the await the loop of call r reaches after idx of its n entries
RunAfterEntry(idx, n) ==
  IF idx < n THEN "getElementBoundingBoxes" ELSE "restoreDOM"

\* await page.evaluate(() => window.createTextBoundingBoxes())
RunCreateTextBoundingBoxes(r) ==
  /\ runPc[r] = "createTextBoundingBoxes"
  /\ pageDom' = PageCreateTextBoundingBoxes(pageDom)
  /\ runPc' = [runPc EXCEPT ![r] = RunAfterEntry(runEntryIdx[r], runEntries[r])]
  /\ UNCHANGED <<runOriginalDOM, runEntries, runEntryIdx, runFailed>>
  /\ UNCHANGED <<extractVars, llmVars, concurrentVars, bodyVars>>

\* one iteration of the loop: getElementBoundingBoxes reads the page
RunGetElementBoundingBoxes(r) ==
  /\ runPc[r] = "getElementBoundingBoxes"
  /\ runEntryIdx' = [runEntryIdx EXCEPT ![r] = @ + 1]
  /\ runPc' = [runPc EXCEPT ![r] = RunAfterEntry(runEntryIdx[r] + 1, runEntries[r])]
  /\ UNCHANGED <<pageDom, runOriginalDOM, runEntries, runFailed>>
  /\ UNCHANGED <<extractVars, llmVars, concurrentVars, bodyVars>>

\* await page.evaluate((dom) => window.restoreDOM(dom), originalDOM)
RunRestoreDOM(r) ==
  /\ runPc[r] = "restoreDOM"
  /\ pageDom' = PageRestoreDOM(pageDom, runOriginalDOM[r])
  /\ runPc' = [runPc EXCEPT ![r] = "extract"]
  /\ UNCHANGED <<runOriginalDOM, runEntries, runEntryIdx, runFailed>>
  /\ UNCHANGED <<extractVars, llmVars, concurrentVars, bodyVars>>

\* const extractionResponse = await extract({...}) resolves
RunInferenceExtract(r) ==
  /\ runPc[r] = "extract"
  /\ runPc' = [runPc EXCEPT ![r] = "cleanupDomDebug"]
  /\ UNCHANGED <<pageDom, runOriginalDOM, runEntries, runEntryIdx, runFailed>>
  /\ UNCHANGED <<extractVars, llmVars, concurrentVars, bodyVars>>

\* await this.cleanupDomDebug() resolves; the completed flag of the response
\* decides between return and throw
RunCleanupDomDebug(r) ==
  /\ runPc[r] = "cleanupDomDebug"
  /\ \E response \in ExtractionResponses :
       runPc' = [runPc EXCEPT ![r] = CompletionGate(response).pc]
  /\ UNCHANGED <<pageDom, runOriginalDOM, runEntries, runEntryIdx, runFailed>>
  /\ UNCHANGED <<extractVars, llmVars, concurrentVars, bodyVars>>

\* the operation call r awaits rejects: extract() has no try/catch/finally
RunAwaitRejects(r) ==
  /\ runPc[r] \in AwaitPoints
  /\ runPc' = [runPc EXCEPT ![r] = "thrown"]
  /\ runFailed' = [runFailed EXCEPT ![r] = TRUE]
  /\ UNCHANGED <<pageDom, runOriginalDOM, runEntries, runEntryIdx>>
  /\ UNCHANGED <<extractVars, llmVars, concurrentVars, bodyVars>>

NextRuns ==
  \/ \E r \in Runs : RunWaitForSettledDom(r)
  \/ \E r \in Runs : RunStartDomDebug(r)
  \/ \E r \in Runs : RunStoreDOM(r)
  \/ \E r \in Runs : RunProcessAllOfDom(r)
  \/ \E r \in Runs : RunCreateTextBoundingBoxes(r)
  \/ \E r \in Runs : RunGetElementBoundingBoxes(r)
  \/ \E r \in Runs : RunRestoreDOM(r)
  \/ \E r \in Runs : RunInferenceExtract(r)
  \/ \E r \in Runs : RunCleanupDomDebug(r)
  \/ \E r \in Runs : RunAwaitRejects(r)

(***************************************************************************)
(* Specifications: one per component, the other component at rest          *)
(***************************************************************************)
\* extract() runs; the adapter is constructed and never called
InitSpecExtract ==
  /\ InitExtract
  /\ InitLLM
  /\ adapter = "anthropic"
  /\ ~enableCaching
  /\ ~hasCache
  /\ baseRequest = CHOOSE r \in Requests : TRUE
  /\ InitConcurrent
  /\ sharedRequest = baseRequest
  /\ BodyIdle
  /\ RunsIdle

\* callers use the adapter; extract() is never started
InitSpecLLM ==
  /\ InitLLM
  /\ InitExtract
  /\ viewport = [width |-> 1000, height |-> 500]
  /\ args.content = Undefined
  /\ InitConcurrent
  /\ sharedRequest = baseRequest
  /\ BodyIdle
  /\ RunsIdle

\* two callers use one caching AnthropicClient; nothing else runs
InitSpecConcurrent ==
  /\ InitConcurrent
  /\ InitLLM
  /\ adapter = "anthropic"
  /\ enableCaching
  /\ hasCache
  /\ baseRequest = sharedRequest
  /\ InitExtract
  /\ viewport = [width |-> 1000, height |-> 500]
  /\ args.content = Undefined
  /\ BodyIdle
  /\ RunsIdle

\* an adapter builds the body for one options object; nothing else runs
InitSpecBody ==
  /\ bodyAdapter \in {"anthropic", "openai"}
  /\ bodyRequest \in BodyRequests
  /\ bodySent = Undefined
  /\ InitLLM
  /\ adapter = bodyAdapter
  /\ ~enableCaching
  /\ ~hasCache
  /\ baseRequest = CHOOSE r \in Requests : TRUE
  /\ InitExtract
  /\ viewport = [width |-> 1000, height |-> 500]
  /\ args.content = Undefined
  /\ InitConcurrent
  /\ sharedRequest = baseRequest
  /\ RunsIdle

\* two extract() calls share one page; nothing else runs
InitSpecRuns ==
  /\ InitRuns
  /\ InitExtract
  /\ viewport = [width |-> 1000, height |-> 500]
  /\ args.content = Undefined
  /\ InitLLM
  /\ adapter = "anthropic"
  /\ ~enableCaching
  /\ ~hasCache
  /\ baseRequest = CHOOSE r \in Requests : TRUE
  /\ InitConcurrent
  /\ sharedRequest = baseRequest
  /\ BodyIdle

SpecExtract == InitSpecExtract /\ [][NextExtract]_vars

SpecLLM == InitSpecLLM /\ [][NextLLM]_vars

SpecConcurrent == InitSpecConcurrent /\ [][NextConcurrent]_vars

SpecBody == InitSpecBody /\ [][NextBody]_vars

SpecRuns == InitSpecRuns /\ [][NextRuns]_vars

(***************************************************************************)
(* Properties of extract()                                                 *)
(***************************************************************************)
Exited == pc \in {"returned", "thrown"}

\* C1 (completion gate): when the backend result carries completed = false,
\* extract() returns no data, and once it has exited it has thrown an error.
C1_CompletionGate ==
  (extractionResponse # None /\ ~Completed(extractionResponse))
    => /\ returned = None
       /\ pc # "returned"
       /\ Exited => (pc = "thrown" /\ error # "")

\* extract() threw the incomplete-extraction error on a completed = false response
C1_Witness ==
  /\ pc = "thrown"
  /\ extractionResponse # None
  /\ ~Completed(extractionResponse)
  /\ error = "Extraction not completed"

\* C2 (DOM restoration), as claimed: once storeDOM has returned the snapshot,
\* whenever extract() has left its capture phase (by success or by a failed
\* page evaluation) the live DOM equals the snapshot.
CapturePhase ==
  { "processAllOfDom", "createTextBoundingBoxes", "getElementBoundingBoxes",
    "restoreDOM" }
CaptureFailures ==
  { "processAllOfDom", "createTextBoundingBoxes", "getElementBoundingBoxes" }
C2_DomRestored ==
  (/\ originalDOM # None
   /\ pc \notin CapturePhase
   /\ (pc = "thrown" => error \in CaptureFailures \cup {"extract", "cleanupDomDebug",
                                                        "Extraction not completed"}))
    => dom = originalDOM

\* C3 (scoped instrumentation), as claimed: a run that called startDomDebug
\* has called cleanupDomDebug exactly once when extract() exits.
C3_CleanupExactlyOnce ==
  (Exited /\ startDomDebugCalls > 0) => cleanupDomDebugCalls = 1

\* the dedup key of the specification, for a box and for an annotation (whose
\* midpoint is (left, top + height)); the centre is kept doubled
KeyOfBox(b) ==
  << b.text, 2 * b.left + b.width, 2 * b.top + b.height, b.width, b.height >>
KeyOfAnnotation(a) ==
  << a.text, 2 * a.midpoint.x + a.width, 2 * (a.midpoint.y - a.height) + a.height,
     a.width, a.height >>

\* C8 (dedup): the annotation list holds exactly one annotation for each
\* distinct key among the boxes visited so far, and none for any other key.
C8_Dedup ==
  /\ \A i \in 1..Len(processed) :
       Cardinality({ j \in 1..Len(textAnnotations) :
                       KeyOfAnnotation(textAnnotations[j]) = KeyOfBox(processed[i]) }) = 1
  /\ \A j \in 1..Len(textAnnotations) :
       \E i \in 1..Len(processed) :
         KeyOfAnnotation(textAnnotations[j]) = KeyOfBox(processed[i])

\* two boxes with the same key were visited in different selector-map entries
C8_Witness ==
  /\ formatTextArgs # <<>>
  /\ entryIdx = 2
  /\ Len(processed) = 2 * MaxBoxes
  /\ Len(textAnnotations) = 2
  /\ KeyOfBox(processed[1]) = KeyOfBox(processed[Len(processed)])

\* the index of the first box of s with the key of s[i]
FirstIndex(s, i) ==
  CHOOSE k \in 1..i : /\ KeyOfBox(s[k]) = KeyOfBox(s[i])
                      /\ \A m \in 1..(k - 1) : KeyOfBox(s[m]) # KeyOfBox(s[i])
\* the keys of s in the order of their first occurrence
RECURSIVE FirstOccurrenceKeys(_, _)
FirstOccurrenceKeys(s, i) ==
  IF i > Len(s) THEN <<>>
  ELSE IF FirstIndex(s, i) = i
       THEN <<KeyOfBox(s[i])>> \o FirstOccurrenceKeys(s, i + 1)
       ELSE FirstOccurrenceKeys(s, i + 1)

\* C9 (order preservation): the annotations are, at every moment, the distinct
\* keys of the boxes visited so far in the order of their first occurrence (so
\* a box whose key was seen before changes nothing), and that sequence is what
\* formatText receives.
C9_FirstOccurrenceOrder ==
  /\ [j \in 1..Len(textAnnotations) |-> KeyOfAnnotation(textAnnotations[j])]
       = FirstOccurrenceKeys(processed, 1)
  /\ formatTextArgs # <<>> => formatTextArgs = <<textAnnotations>>

\* formatText received two annotations although duplicates followed them
C9_Witness ==
  /\ formatTextArgs # <<>>
  /\ Len(formatTextArgs[1]) = 2
  /\ Len(processed) > 2
  /\ KeyOfBox(processed[1]) # KeyOfBox(processed[2])
  /\ KeyOfBox(processed[3]) = KeyOfBox(processed[1])

\* C10 (normalized midpoint), as claimed: every annotation has
\* midpoint_normalized = (left / W, (top + height) / H), where (left,
\* top + height) is its midpoint; the scenario box yields (0.01, 0.08); and a
\* box inside the viewport yields components between 0 and 1.
InsideViewport(a, vp) ==
  /\ 0 <= a.midpoint.x /\ a.midpoint.x + a.width <= vp.width
  /\ 0 <= a.midpoint.y - a.height /\ a.midpoint.y <= vp.height
C10_NormalizedMidpoint ==
  \A j \in 1..Len(textAnnotations) :
    LET a == textAnnotations[j]
    IN  /\ RatEq(a.midpoint_normalized.x, Rat(a.midpoint.x, viewport.width))
        /\ RatEq(a.midpoint_normalized.y, Rat(a.midpoint.y, viewport.height))
        /\ (a.midpoint = [x |-> 10, y |-> 40] /\ viewport = [width |-> 1000, height |-> 500])
             => /\ RatEq(a.midpoint_normalized.x, Rat(1, 100))
                /\ RatEq(a.midpoint_normalized.y, Rat(8, 100))
        /\ InsideViewport(a, viewport)
             => /\ RatLeq(Rat(0, 1), a.midpoint_normalized.x)
                /\ RatLeq(a.midpoint_normalized.x, Rat(1, 1))
                /\ RatLeq(Rat(0, 1), a.midpoint_normalized.y)
                /\ RatLeq(a.midpoint_normalized.y, Rat(1, 1))

(***************************************************************************)
(* Properties of the adapters                                              *)
(***************************************************************************)
HasToolUse(response) == \E i \in 1..Len(response.content) : response.content[i].type = "tool_use"
SchemaCallDone ==
  llmPc = "done" /\ adapter = "anthropic" /\ request.response_model # Undefined

SameButRequestId(o1, o2) ==
  [o1 EXCEPT !.requestId = Undefined] = [o2 EXCEPT !.requestId = Undefined]

\* C5 (cache identity): any two cache reads whose requests differ only in
\* requestId hand the cache identical fingerprint inputs, and against the
\* same cache content they get the same outcome (both a miss, or both a hit
\* with the same value).
C5_CacheIdentity ==
  \A a \in reads : \A b \in reads :
    SameButRequestId(a.options, b.options)
      => /\ a.inputs = b.inputs
         /\ a.cache = b.cache => a.got = b.got

\* a request found the entry that a request with another requestId had written
C5_Witness ==
  \E a \in reads : \E b \in reads :
    /\ a.options.requestId # b.options.requestId
    /\ SameButRequestId(a.options, b.options)
    /\ a.got = Undefined
    /\ b.got # Undefined
    /\ b.inputs \in DOMAIN b.cache

\* C6 (cache hit short-circuit): with caching enabled an invocation reads the
\* cache before it calls the vendor; when the read yields an entry, the
\* invocation has returned exactly that entry without a vendor call and
\* without a cache write.
C6_HitShortCircuit ==
  /\ (enableCaching /\ invVendorCalls > 0) => invReadDone
  /\ (invReadDone /\ cachedResponse # Undefined)
       => /\ llmPc = "done"
          /\ llmError = ""
          /\ result = cachedResponse
          /\ invVendorCalls = 0
          /\ invCacheWrites = 0

\* a caller's second call was answered from the cache
C6_Witness ==
  /\ llmPc = "done"
  /\ invReadDone
  /\ cachedResponse # Undefined
  /\ result = cachedResponse
  /\ callVendorCalls = 0
  /\ calls = 2

\* C7 (adapter cache round-trip), as claimed: when a call that missed the
\* cache has returned a value, an identical request (the options as the
\* caller passed them) is a cache hit that yields that value.
C7_CacheRoundTrip ==
  (llmPc = "done" /\ enableCaching /\ llmError = "" /\ firstRead = "miss")
    => CacheGet(cache, CacheOptions(adapter, request), request.requestId) = result


(***************************************************************************)
(* Further properties of extract()                                         *)
(***************************************************************************)
\* the boxes of s whose key occurs for the first time, in order
RECURSIVE FirstOccurrenceBoxes(_, _)
FirstOccurrenceBoxes(s, i) ==
  IF i > Len(s) THEN <<>>
  ELSE IF FirstIndex(s, i) = i
       THEN <<s[i]>> \o FirstOccurrenceBoxes(s, i + 1)
       ELSE FirstOccurrenceBoxes(s, i + 1)

\* C11 (midpoint anchor): every annotation emitted for a box carries the
\* box's text, width and height unchanged and has its midpoint at
\* (left, top + height).
C11_MidpointAnchor ==
  LET emitting == FirstOccurrenceBoxes(processed, 1)
  IN  /\ Len(textAnnotations) = Len(emitting)
      /\ \A j \in 1..Len(emitting) :
           /\ textAnnotations[j].midpoint.x = emitting[j].left
           /\ textAnnotations[j].midpoint.y = emitting[j].top + emitting[j].height
           /\ textAnnotations[j].text = emitting[j].text
           /\ textAnnotations[j].width = emitting[j].width
           /\ textAnnotations[j].height = emitting[j].height

\* the box of the scenario (left 10, top 20, 80 x 20) was annotated at (10, 40)
C11_Witness ==
  /\ formatTextArgs # <<>>
  /\ \E j \in 1..Len(textAnnotations) :
       /\ textAnnotations[j].text = "Stars: 1000"
       /\ textAnnotations[j].width = 80
       /\ textAnnotations[j].midpoint = [x |-> 10, y |-> 40]

\* C12 (flag stripping): a value extract() returns holds exactly the fields of
\* the backend response other than the metadata wrapper, with their values,
\* and neither a completed flag nor the wrapper.
C12_FlagStripping ==
  returned # None =>
    /\ extractionResponse # None
    /\ DOMAIN returned = (DOMAIN extractionResponse) \ {"metadata"}
    /\ \A k \in DOMAIN returned : returned[k] = extractionResponse[k]
    /\ "metadata" \notin DOMAIN returned
    /\ "completed" \notin DOMAIN returned

\* extract() returned the schema-shaped part of a completed response
C12_Witness ==
  /\ pc = "returned"
  /\ "metadata" \in DOMAIN extractionResponse
  /\ returned = [score |-> 93]

\* C16 (distinct incomplete error), as claimed: the error extract() raises on
\* completed = false is of the kind ExtractionIncompleteError, a kind that no
\* failed page evaluation or failed backend call raises.
C16_DistinctIncompleteError ==
  (pc = "thrown" /\ error = "Extraction not completed")
    => /\ errorName = "ExtractionIncompleteError"
       /\ errorName \notin RejectionNames

\* the calls of inference extract() a run has made once its capture succeeded
AfterCapture ==
  \/ pc \in {"extract", "cleanupDomDebug", "returned"}
  \/ pc = "thrown" /\ error \in {"extract", "cleanupDomDebug", "Extraction not completed"}

\* C17 (single-shot orchestration): a run whose DOM capture succeeded has
\* called inference extract() exactly once, with the formatted annotation
\* text, the caller's schema and the caller's prior content (an empty object
\* when none was given); no run calls it twice, and a run that threw on
\* completed = false has called it once.
C17_SingleShot ==
  /\ Len(extractCalls) = (IF AfterCapture THEN 1 ELSE 0)
  /\ AfterCapture =>
       /\ extractCalls[1].domElements = FormatText(formatTextArgs[1])
       /\ formatTextArgs = <<textAnnotations>>
       /\ extractCalls[1].schema = args.schema
       /\ extractCalls[1].previouslyExtractedContent
            = (IF args.content = Undefined THEN {} ELSE args.content[1])

\* a run given prior content threw on completed = false after its single call
C17_Witness ==
  /\ pc = "thrown"
  /\ error = "Extraction not completed"
  /\ args.content # Undefined
  /\ Len(extractCalls) = 1
  /\ extractCalls[1].previouslyExtractedContent = { <<"score", 7>> }
  /\ Len(extractCalls[1].domElements) = 2

\* C18 (failure logged before thrown), as claimed: when extract() has thrown
\* because a page evaluation or the backend call failed or because of
\* completed = false, and when createChatCompletion has thrown, a log record
\* describing the failure has been emitted. The records that can describe a
\* failure are the adapters' "error creating chat completion" and extract()'s
\* record of a response that carries completed = false.
DescribesFailure(log) ==
  /\ log.message = "received extraction response"
  /\ ~Completed(log.auxiliary)
C18_FailureLogged ==
  /\ (pc = "thrown" /\ error \in PageEvaluations \cup {"extract", "Extraction not completed"})
       => \E i \in 1..Len(logs) : DescribesFailure(logs[i])
  /\ (llmPc = "done" /\ llmError # "")
       => \E i \in 1..Len(llmLogs) : llmLogs[i] = "error creating chat completion"

(***************************************************************************)
(* Further properties of the adapters                                      *)
(***************************************************************************)
\* a schema-requesting call of AnthropicClient is under way or over
SchemaCall ==
  llmPc # "idle" /\ adapter = "anthropic" /\ request.response_model # Undefined

\* the input of the tool invocation that comes first in response order
FirstToolInput(response) ==
  LET content == response.content
      k == CHOOSE k \in 1..Len(content) :
             /\ content[k].type = "tool_use"
             /\ \A n \in 1..(k - 1) : content[n].type # "tool_use"
  IN  content[k].input

\* C13 (Strategy B result selection): in a schema-requesting call, a vendor
\* response that contains tool invocations is the last one the call receives:
\* the call has returned the input of the first invocation in response order,
\* and every vendor call it issued precedes that response.
C13_FirstToolInvocation ==
  SchemaCall =>
    \A i \in 1..Len(vendorResponses) :
      HasToolUse(vendorResponses[i]) =>
        /\ i = Len(vendorResponses)
        /\ callVendorCalls = Len(vendorResponses)
        /\ llmPc = "done"
        /\ llmError = ""
        /\ result = Some(FirstToolInput(vendorResponses[i]))

\* after a response without tool invocations, a response invoking the
\* caller's tool and then the forcing tool was answered with the input of the
\* caller's tool
C13_Witness ==
  /\ SchemaCallDone
  /\ Len(vendorResponses) = 2
  /\ vendorResponses[2].content
       = <<ToolUse("click", Data2), ToolUse("print_extracted_data", Data1)>>
  /\ result = Some(Data2)

\* C14 (forcing-tool check), as claimed: with a schema and caller-supplied
\* tools, a call that returned a value obtained from the vendor returned it for
\* a response that invokes print_extracted_data; a response without such an
\* invocation is followed by a retry or the terminal error.
InvokesForcingTool(response) ==
  \E k \in 1..Len(response.content) :
    /\ response.content[k].type = "tool_use"
    /\ response.content[k].name = "print_extracted_data"
C14_ForcingToolCheck ==
  (/\ SchemaCall
   /\ request.tools # Undefined
   /\ llmPc = "done" /\ llmError = ""
   /\ cachedResponse = Undefined
   /\ vendorResponses # <<>>)
    => InvokesForcingTool(vendorResponses[Len(vendorResponses)])

\* C15 (cache failure is a miss), as claimed: no createChatCompletion call
\* ends with the error of a failed cache read.
C15_CacheFailureIsMiss ==
  llmPc = "done" => llmError \notin { CacheReadError(TRUE), CacheReadError(FALSE) }

\* C19 (Strategy A has no retry): OpenAIClient issues at most one vendor call
\* per createChatCompletion call, exactly one when the call is over without a
\* cache hit and without a failed cache read; with a schema and unparsable
\* content the call has thrown the parse failure and returned nothing.
C19_NoRetry ==
  adapter = "openai" =>
    /\ callVendorCalls <= 1 /\ Len(vendorResponses) <= 1
    /\ (llmPc = "done" /\ firstRead # "hit"
          /\ llmError \notin { CacheReadError(TRUE), CacheReadError(FALSE) })
         => callVendorCalls = 1
    /\ (/\ llmPc # "idle"
        /\ request.response_model # Undefined
        /\ vendorResponses # <<>>
        /\ vendorResponses[1].choices[1].message.content = "Sorry, I cannot")
         => /\ llmPc = "done"
            /\ llmError = "SyntaxError"
            /\ result = Undefined
            /\ callVendorCalls = 1

\* a schema-requesting OpenAIClient call missed the cache, received
\* unparsable content and threw after its single vendor call
C19_Witness ==
  /\ adapter = "openai"
  /\ llmPc = "done"
  /\ firstRead = "miss"
  /\ llmError = "SyntaxError"
  /\ callVendorCalls = 1

(***************************************************************************)
(* Properties of two overlapping calls                                     *)
(***************************************************************************)
\* the fingerprint inputs of the request both callers send
SharedFingerprint == AnthropicCacheOptions(sharedRequest)
BothReturned ==
  \A p \in Callers : callerPc[p] = "done" /\ callerError[p] = ""

\* the writes made under the request's fingerprint, in order
FingerprintWrites ==
  SelectSeq(cacheWrites, LAMBDA w : w.inputs = SharedFingerprint)

\* C20 (shared cache under concurrency), as claimed: once both calls have
\* returned, the cache holds an entry for the request's fingerprint, that
\* entry is the value written last under the fingerprint, and each caller has
\* received its own vendor result or a value that was written to the cache.
C20_SharedCache ==
  BothReturned =>
    /\ SharedFingerprint \in DOMAIN sharedCache
    /\ FingerprintWrites # <<>>
    /\ sharedCache[SharedFingerprint] = FingerprintWrites[Len(FingerprintWrites)].value
    /\ \A p \in Callers :
         \/ callerResult[p] = callerVendorValue[p]
         \/ \E i \in 1..Len(cacheWrites) : callerResult[p] = Some(cacheWrites[i].value)

(***************************************************************************)
(* Properties of the fingerprint inputs and of the caller's request        *)
(***************************************************************************)
\* C21 (retry does not change cache identity), as claimed: every cache read
\* and every cache entry of an AnthropicClient is under the fingerprint inputs
\* of the caller's original request, whichever attempt made it.
C21_RetryKeepsIdentity ==
  adapter = "anthropic" =>
    /\ \A r \in reads : r.inputs = AnthropicCacheOptions(baseRequest)
    /\ DOMAIN cache \subseteq { AnthropicCacheOptions(baseRequest) }

\* C22 (fingerprint covers tools), as claimed: the fingerprint inputs of a
\* cache read differ from those of the same request with another tools list.
C22_FingerprintCoversTools ==
  \A r \in reads :
    \A t \in ToolLists :
      t # r.options.tools
        => CacheOptions(adapter, [r.options EXCEPT !.tools = t]) # r.inputs

\* C23 (request is not mutated), as claimed: while and after a call runs, the
\* messages of the options object are those the caller passed, and the
\* fingerprint inputs the cache would be handed now are those built on entry.
C23_RequestNotMutated ==
  llmPc # "idle" =>
    /\ options.messages = request.messages
    /\ CacheOptionsNow(cacheOptions, options) = cacheOptions

(***************************************************************************)
(* Properties of the order of extract()'s operations                       *)
(***************************************************************************)
\* the operations of a run in the order of the specification, for the
\* selector map the page returned: their names and arguments
ExpectedOperations ==
  << [op |-> "waitForSettledDom", arg |-> <<>>],
     [op |-> "startDomDebug", arg |-> <<>>],
     [op |-> "storeDOM", arg |-> <<>>],
     [op |-> "processAllOfDom", arg |-> <<>>],
     [op |-> "createTextBoundingBoxes", arg |-> <<>>] >>
  \o [i \in 1..Len(selectorMap) |->
        [op |-> "getElementBoundingBoxes", arg |-> <<selectorMap[i][1]>>]]
  \o << [op |-> "restoreDOM", arg |-> <<originalDOM>>],
        [op |-> "extract", arg |-> <<>>],
        [op |-> "cleanupDomDebug", arg |-> <<>>] >>

\* the backend extraction call has been issued
BackendCallIssued == extractCalls # <<>>

\* C24 (capture ordering): the operations a run has performed are, in order,
\* an initial part of waitForSettledDom, startDomDebug, storeDOM,
\* processAllOfDom, createTextBoundingBoxes, one getElementBoundingBoxes per
\* selector-map entry with that entry's first path, restoreDOM with the value
\* storeDOM returned, and the backend call; the backend call is issued only
\* after all of them resolved, and while it runs the DOM is the snapshot,
\* without injected bounding boxes.
C24_CaptureOrdering ==
  /\ Len(operations) <= Len(ExpectedOperations)
  /\ \A i \in 1..Len(operations) :
       /\ operations[i].op = ExpectedOperations[i].op
       /\ operations[i].arg = ExpectedOperations[i].arg
  /\ BackendCallIssued =>
       /\ Len(operations) >= 6 + Len(selectorMap)
       /\ \A i \in 1..(6 + Len(selectorMap)) : operations[i].ok
       /\ operations[6 + Len(selectorMap)].op = "restoreDOM"
       /\ originalDOM = InitialDOM
  /\ pc = "extract" => (dom = originalDOM /\ ~dom.textBoundingBoxes)

\* the backend call is under way after two getElementBoundingBoxes queries
C24_Witness ==
  /\ pc = "extract"
  /\ BackendCallIssued
  /\ Len(selectorMap) = 2
  /\ Len(operations) = 8
  /\ operations[7].arg = <<selectorMap[2][1]>>

\* a page evaluation of the run has failed
FailedPageEvaluations ==
  { i \in 1..Len(operations) : ~operations[i].ok /\ operations[i].op \in PageEvaluations }

\* C25 (page failure propagation): once a page evaluation of extract() has
\* failed, extract() has thrown that failure, has issued no backend extraction
\* call and has returned no data.
C25_PageFailurePropagation ==
  \A i \in FailedPageEvaluations :
    /\ pc = "thrown"
    /\ error = operations[i].op
    /\ i = Len(operations)
    /\ ~BackendCallIssued
    /\ extractionResponse = None
    /\ returned = None

\* the second getElementBoundingBoxes evaluation failed and extract() threw
C25_Witness ==
  /\ pc = "thrown"
  /\ error = "getElementBoundingBoxes"
  /\ entryIdx = 1
  /\ FailedPageEvaluations = { Len(operations) }

(***************************************************************************)
(* The tool list and the non-schema path of AnthropicClient                *)
(***************************************************************************)

\* the names of the tools of a request body, in the order sent
SentToolNames(body) ==
  IF body.tools = Undefined THEN <<>>
  ELSE [k \in 1..Len(ValueOf(body.tools)) |-> ValueOf(body.tools)[k].name]

\* the names of the tools the caller supplied, in the caller's order
CallerToolNames(opts) ==
  IF opts.tools = Undefined THEN <<>>
  ELSE [k \in 1..Len(ValueOf(opts.tools)) |-> ValueOf(opts.tools)[k].function.name]

\* the caller's call went to the vendor and came back without an error
AnsweredByVendor ==
  llmPc = "done" /\ llmError = "" /\ firstRead # "hit"

\* C26: an AnthropicClient call without a response schema sends no
\* print_extracted_data tool, issues at most one vendor call and never a
\* retry, and when the vendor answered (a miss, or caching disabled) it
\* issued exactly one vendor call, returns the transformed completion of
\* that answer and, with caching enabled, the cache holds that same value
\* under the request's fingerprint.
C26_NonSchemaBypass ==
  (adapter = "anthropic" /\ llmPc # "idle" /\ request.response_model = Undefined) =>
    /\ \A i \in 1..Len(vendorRequests) :
         \A k \in 1..Len(SentToolNames(vendorRequests[i])) :
           SentToolNames(vendorRequests[i])[k] # "print_extracted_data"
    /\ Len(vendorRequests) <= 1
    /\ callVendorCalls <= 1
    /\ options.retries = Undefined
    /\ AnsweredByVendor =>
         /\ callVendorCalls = 1
         /\ Len(vendorResponses) = 1
         /\ result = Some(TransformedResponse(vendorResponses[1]))
         /\ enableCaching =>
              CacheGet(cache, AnthropicCacheOptions(request), request.requestId) = result

\* a non-schema call with caller tools was answered with text only (what the
\* schema path would retry on), returned and cached the transformed completion
C26_Witness ==
  /\ adapter = "anthropic" /\ enableCaching
  /\ llmPc = "done" /\ llmError = "" /\ firstRead = "miss"
  /\ request.response_model = Undefined
  /\ request.tools # Undefined
  /\ vendorResponses = << [content |-> <<TextBlock>>] >>
  /\ SentToolNames(vendorRequests[1]) = <<"click", "fill">>
  /\ result = Some(TransformedResponse([content |-> <<TextBlock>>]))

\* C27: with a response schema, the tool list of every attempt's request is
\* the caller's tools in their order followed by exactly one
\* print_extracted_data tool, it is the same list on every attempt, and the
\* caller's tools list is left as it was.
C27_ForcingToolPlacement ==
  (adapter = "anthropic" /\ llmPc # "idle" /\ request.response_model # Undefined) =>
    /\ \A i \in 1..Len(vendorRequests) :
         /\ vendorRequests[i].tools # Undefined
         /\ SentToolNames(vendorRequests[i])
              = CallerToolNames(request) \o <<"print_extracted_data">>
         /\ \A k \in 1..Len(CallerToolNames(request)) :
              ValueOf(vendorRequests[i].tools)[k] = AnthropicTool(ValueOf(request.tools)[k])
         /\ vendorRequests[i].tools = vendorRequests[1].tools
    /\ options.tools = request.tools

\* a schema call with two caller tools is at its third attempt
C27_Witness ==
  /\ adapter = "anthropic"
  /\ llmPc = "vendor"
  /\ request.response_model # Undefined
  /\ Len(vendorRequests) = 3
  /\ SentToolNames(vendorRequests[3]) = <<"click", "fill", "print_extracted_data">>
  /\ options.retries = Some(2)

(***************************************************************************)
(* Properties of the request body                                          *)
(***************************************************************************)

\* the positions of the caller's messages that are not system messages
NonSystemPositions(messages) ==
  { i \in 1..Len(messages) : messages[i].role # "system" }

\* the position of the caller's j-th non-system message
NthNonSystem(messages, j) ==
  CHOOSE i \in NonSystemPositions(messages) :
    Cardinality({ k \in NonSystemPositions(messages) : k <= i }) = j

\* the positions of the system messages whose content has no image part
PromptPositions(messages) ==
  { i \in 1..Len(messages) :
      /\ messages[i].role = "system"
      /\ \/ IsString(messages[i].content)
         \/ \A k \in 1..Len(messages[i].content.parts) :
              messages[i].content.parts[k].type # "image_url" }

\* the turn sent carries the caller's message: same role, same text
Carries(turn, message) ==
  /\ turn.role = message.role
  /\ IsString(message.content) => turn.content = message.content
  /\ ~IsString(message.content) =>
       /\ ~IsString(turn.content)
       /\ Len(turn.content.parts) = Len(message.content.parts)
       /\ \A k \in 1..Len(message.content.parts) :
            message.content.parts[k].type = "text"
              => /\ turn.content.parts[k].type = "text"
                 /\ turn.content.parts[k].text = message.content.parts[k].text

\* the number of the caller's messages the adapter forwards as turns
ForwardedCount(a, messages) ==
  IF a = "anthropic" THEN Cardinality(NonSystemPositions(messages)) ELSE Len(messages)

\* C28: the body AnthropicClient sends has a system prompt exactly when the
\* caller's messages hold a system message without image part, and then it
\* is the content of the first such message; the caller's non-system
\* messages are the first turns of the body, each once and in the caller's
\* order, and no turn of the body has the system role.
C28_SystemSegregation ==
  (bodyAdapter = "anthropic" /\ bodySent # Undefined) =>
    LET body == ValueOf(bodySent)
        messages == bodyRequest.messages
        prompts == PromptPositions(messages)
        n == Cardinality(NonSystemPositions(messages))
    IN  /\ prompts = {} => body.system = Undefined
        /\ prompts # {} =>
             body.system = Some(messages[CHOOSE i \in prompts : \A k \in prompts : i <= k].content)
        /\ Len(body.messages) = n + (IF bodyRequest.image = Undefined THEN 0 ELSE 1)
        /\ \A j \in 1..n : Carries(body.messages[j], messages[NthNonSystem(messages, j)])
        /\ \A j \in 1..Len(body.messages) : body.messages[j].role # "system"

\* a system message with an image, two system prompts and a user turn between
\* them: the first prompt is sent, the user turn is the only turn
C28_Witness ==
  /\ bodyAdapter = "anthropic"
  /\ bodySent # Undefined
  /\ bodyRequest.messages = <<SystemWithImage, SecondSystemPrompt, SystemPrompt>>
  /\ bodyRequest.image = Undefined
  /\ ValueOf(bodySent).system = Some(Str("Answer in JSON."))
  /\ ValueOf(bodySent).messages = <<>>

\* the first part of a turn is the request's image in base64
IsImagePart(a, part, image) ==
  IF a = "anthropic"
  THEN /\ part.type = "image"
       /\ part.source.type = "base64"
       /\ part.source.data = Base64(image.buffer)
  ELSE /\ part.type = "image_url"
       /\ part.image_url.url = <<"data:image/jpeg;base64,", Base64(image.buffer)>>

\* C29: with an image in the request, the messages of the body are the
\* caller's forwarded turns followed by exactly one user turn whose first
\* part is the image in base64 and whose second part, there only if a
\* description was given, is the description as text; without an image the
\* messages of the body are the caller's forwarded turns and nothing else.
C29_ImageTurn ==
  bodySent # Undefined =>
    LET sent == ValueOf(bodySent).messages
        messages == bodyRequest.messages
        n == ForwardedCount(bodyAdapter, messages)
        position(j) == IF bodyAdapter = "anthropic" THEN NthNonSystem(messages, j) ELSE j
    IN  /\ \A j \in 1..n :
             /\ j <= Len(sent)
             /\ Carries(sent[j], messages[position(j)])
        /\ bodyRequest.image = Undefined => Len(sent) = n
        /\ bodyRequest.image # Undefined =>
             LET image == ValueOf(bodyRequest.image)
             IN  /\ Len(sent) = n + 1
                 /\ sent[n + 1].role = "user"
                 /\ ~IsString(sent[n + 1].content)
                 /\ LET parts == sent[n + 1].content.parts
                    IN  /\ Len(parts) \in {1, 2}
                        /\ IsImagePart(bodyAdapter, parts[1], image)
                        /\ Len(parts) = 2 =>
                             /\ image.description # Undefined
                             /\ parts[2].type = "text"
                             /\ parts[2].text = ValueOf(image.description)
                        /\ (image.description # Undefined /\ ValueOf(image.description) # "")
                             => Len(parts) = 2

\* OpenAIClient sent two caller turns and then the image turn with its caption
C29_Witness ==
  /\ bodyAdapter = "openai"
  /\ bodySent # Undefined
  /\ bodyRequest.messages = <<SystemPrompt, UserText>>
  /\ bodyRequest.image = Some([buffer |-> "png", description |-> Some("a screenshot")])
  /\ Len(ValueOf(bodySent).messages) = 3
  /\ ValueOf(bodySent).messages[3].content.parts[1].image_url.url
       = <<"data:image/jpeg;base64,", "cG5n">>
  /\ ValueOf(bodySent).messages[3].content.parts[2].text = "a screenshot"

(***************************************************************************)
(* Properties of two extract() calls on one page                           *)
(***************************************************************************)

\* both calls returned their output: no awaited operation rejected and both
\* responses were complete
BothRunsReturned == \A r \in Runs : runPc[r] = "returned"

\* C30: when both extract() calls on the page have returned, the live DOM is
\* the DOM from before either call started: no injected boxes remain.
C30_ConcurrentExtracts ==
  BothRunsReturned => (pageDom = InitialDOM /\ ~pageDom.textBoundingBoxes)

(***************************************************************************)
(* Frame properties of the cache                                           *)
(***************************************************************************)

\* the caller's call is over and rejected
CallFailed == llmPc = "done" /\ llmError # ""

\* C31: a createChatCompletion call that ended in an error (the vendor call
\* rejected, OpenAIClient could not parse the content, AnthropicClient used
\* up its attempts, or the cache read failed) made no cache.set on any of
\* its attempts, and the cache holds what it held when the call started.
C31_FailedCallsWriteNothing ==
  CallFailed =>
    /\ callWrites = <<>>
    /\ invCacheWrites = 0
    /\ cache = cacheBefore

\* with caching enabled, a second call failed while the cache held the entry
\* the first call wrote
C31_Witness ==
  /\ CallFailed
  /\ enableCaching
  /\ calls = 2
  /\ llmError \in {"SyntaxError", "vendor call failed"}
  /\ callVendorCalls = 1
  /\ cacheBefore # << >>
  /\ cache = cacheBefore

\* the messages logged by the cache branches of createChatCompletion
CacheLogs ==
  { "LLM cache hit - returning cached response",
    "LLM cache miss - no cached response found",
    "cached response", "caching response" }

\* C32: an adapter constructed with caching disabled never awaits cache.get
\* and never calls cache.set, on retries as on first attempts, so the cache
\* stays as constructed; and every call it was given has issued a vendor call.
C32_CachingDisabled ==
  ~enableCaching =>
    /\ llmPc # "cache.get"
    /\ reads = {}
    /\ firstRead = "none"
    /\ cachedResponse = Undefined
    /\ ~invReadDone
    /\ callWrites = <<>>
    /\ invCacheWrites = 0
    /\ cache = << >>
    /\ llmError \notin { CacheReadError(TRUE), CacheReadError(FALSE) }
    /\ \A i \in 1..Len(llmLogs) : llmLogs[i] \notin CacheLogs
    /\ llmPc # "idle" => (callVendorCalls >= 1 /\ Len(vendorRequests) = callVendorCalls)

\* an adapter without caching and without a cache object answered its second
\* call after two retries
C32_Witness ==
  /\ ~enableCaching
  /\ ~hasCache
  /\ adapter = "anthropic"
  /\ calls = 2
  /\ llmPc = "done"
  /\ llmError = ""
  /\ result # Undefined
  /\ callVendorCalls = 3

====
